---- MODULE Spec2Model ----
(***************************************************************************)
(* Scheduling and state-coordination core of the travel post generator:   *)
(* ScheduleManager, CommentsManager, GroupsManager, the scheduler loop,    *)
(* the generate-and-publish pipeline, the relay should-post poll and the   *)
(* administrator command router (src/app.py, src/database.py).             *)
(*                                                                         *)
(* Python strings are sequences of one-character strings, so that split,   *)
(* strip, len and int are computed as the code computes them.  None is the *)
(* one-element tuple <<"None">>.  An instant is a number of ticks since    *)
(* midnight of day 0; datetime.isoformat() of the instant t is the tuple   *)
(* <<"iso", t>> for a naive datetime and <<"iso", t, "+00:00">> for one    *)
(* that carries a time zone.                                               *)
(***************************************************************************)
EXTENDS Integers, Sequences, FiniteSets, TLC

VARIABLES
    now,            \* datetime.now(): the server's wall clock, in ticks
    use_db,         \* bool(os.getenv("DATABASE_URL")): the backend selected at start
    schedule,       \* ScheduleManager.schedule (the in-memory record)
    stored,         \* the persisted schedule: schedule.json, or the schedule table's row
    groups,         \* GroupsManager.groups (the in-memory list)
    active_group_id,\* GroupsManager._active_group_id
    group_rows,     \* the groups table, ordered by id (relational backend)
    comments,       \* CommentsManager.comments["comments"], or the comments table by id
    added,          \* number of add_comment calls so far (names the texts)
    settings,       \* Settings: zapier_mode, admin_chat_id, telegram_token, telegram_group_id
    loopPc,         \* where the scheduler loop's task stands
    poll,           \* where each relay should-post request stands
    cancelled,      \* _scheduler_task.cancel() was called and not yet delivered
    twin,           \* a relational-backed instance given the same store operations
    posts,          \* StatsManager.stats["posts"], or the stats_posts table by id
                    \* (the collection is followed in SpecStats only)
    web,            \* the webhook requests carrying /toggle_schedule, and their count
    ev              \* the operation performed by the last step, with its result

storeVars == <<now, use_db, schedule, stored>>
groupVars == <<groups, active_group_id, group_rows>>
commentVars == <<comments, added>>
sysVars == <<settings, loopPc, poll, cancelled, twin, posts, web>>
vars == <<storeVars, groupVars, commentVars, sysVars, ev>>

\* ------------------------------------------------------------------ bounds
TicksPerMinute == 2     \* clock resolution: instants between two minute marks exist
StepHours == 12         \* the clock is observed every StepHours hours
MaxDays == 2            \* the clock stops after MaxDays days
MaxAdds == 3            \* add_comment calls in one run
MaxToggles == 3         \* /toggle_schedule commands carried out in one run

\* ------------------------------------------------------------ calendar
MinutesPerHour == 60
HoursPerDay == 24
MaxHour == 23
MaxMinute == 59
TicksPerHour == MinutesPerHour * TicksPerMinute
TicksPerDay == HoursPerDay * TicksPerHour
MaxNow == MaxDays * TicksPerDay

\* --------------------------------------------------------- Python values
NoneV == <<"None">>
ValueError == [ok |-> FALSE]
Ok(v) == [ok |-> TRUE, val |-> v]

Digits == <<"0", "1", "2", "3", "4", "5", "6", "7", "8", "9">>
IsDigit(c) == \E i \in 1..Len(Digits) : Digits[i] = c
DigitVal(c) == (CHOOSE i \in 1..Len(Digits) : Digits[i] = c) - 1
IsSpace(c) == c = " "

\* x in s, for a one-character x
Contains(s, c) == \E i \in 1..Len(s) : s[i] = c

\* str.strip()
RECURSIVE LStrip(_)
LStrip(s) == IF s # <<>> /\ IsSpace(Head(s)) THEN LStrip(Tail(s)) ELSE s
RECURSIVE RStrip(_)
RStrip(s) ==
    IF s # <<>> /\ IsSpace(s[Len(s)]) THEN RStrip(SubSeq(s, 1, Len(s) - 1)) ELSE s
Strip(s) == RStrip(LStrip(s))

\* str.split(sep): every separator cuts, empty pieces are kept
RECURSIVE SplitAt(_, _, _)
SplitAt(s, sep, cur) ==
    IF s = <<>> THEN <<cur>>
    ELSE IF Head(s) = sep THEN <<cur>> \o SplitAt(Tail(s), sep, <<>>)
    ELSE SplitAt(Tail(s), sep, Append(cur, Head(s)))
Split(s, sep) == SplitAt(s, sep, <<>>)

\* str.split(): cuts at runs of whitespace, no empty pieces
RECURSIVE SplitWsAt(_, _)
SplitWsAt(s, cur) ==
    IF s = <<>> THEN (IF cur = <<>> THEN <<>> ELSE <<cur>>)
    ELSE IF IsSpace(Head(s))
         THEN (IF cur = <<>> THEN <<>> ELSE <<cur>>) \o SplitWsAt(Tail(s), <<>>)
    ELSE SplitWsAt(Tail(s), Append(cur, Head(s)))
SplitWs(s) == SplitWsAt(s, <<>>)

\* list[:n]
Take(l, n) == SubSeq(l, 1, IF Len(l) < n THEN Len(l) ELSE n)

\* int(s): surrounding whitespace and one sign are accepted, then digits only
RECURSIVE DigitsVal(_, _)
DigitsVal(s, acc) ==
    IF s = <<>> THEN acc ELSE DigitsVal(Tail(s), 10 * acc + DigitVal(Head(s)))
PyInt(s) ==
    LET t == Strip(s)
        signed == t # <<>> /\ Head(t) \in {"+", "-"}
        d == IF signed THEN Tail(t) ELSE t
    IN  IF d = <<>> \/ \E i \in 1..Len(d) : ~IsDigit(d[i]) THEN ValueError
        ELSE Ok(IF signed /\ Head(t) = "-" THEN 0 - DigitsVal(d, 0) ELSE DigitsVal(d, 0))

TypeError == [ok |-> FALSE]

\* a datetime: an instant, naive or carrying a time zone
Dt(t, aware) == <<"dt", t, aware>>
Instant(d) == d[2]
Aware(d) == d[3]

\* datetime.isoformat() and datetime.fromisoformat()
IsoFormat(d) == IF Aware(d) THEN <<"iso", Instant(d), "+00:00">> ELSE <<"iso", Instant(d)>>
FromIsoFormat(s) ==
    IF Len(s) \in {2, 3} /\ s[1] = "iso" THEN Ok(Dt(s[2], Len(s) = 3)) ELSE ValueError

\* a >= b on datetimes: naive and aware datetimes do not compare
DtGE(a, b) == IF Aware(a) # Aware(b) THEN TypeError ELSE Ok(Instant(a) >= Instant(b))
DtLT(a, b) == IF Aware(a) # Aware(b) THEN TypeError ELSE Ok(Instant(a) < Instant(b))

\* now.replace(hour=h, minute=m, second=0, microsecond=0)
Replace(t, h, m) ==
    IF h \in 0..MaxHour /\ m \in 0..MaxMinute
    THEN Ok((t \div TicksPerDay) * TicksPerDay + (h * MinutesPerHour + m) * TicksPerMinute)
    ELSE ValueError

\* hour, minute = map(int, str(x).strip().split(":")[:2])
ParseHourMinute(s) ==
    LET parts == Take(Split(Strip(s), ":"), 2)
    IN  IF Len(parts) # 2 THEN ValueError
        ELSE LET h == PyInt(parts[1])
                 m == PyInt(parts[2])
             IN  IF h.ok /\ m.ok THEN Ok(<<h.val, m.val>>) ELSE ValueError

\* variant of RollForward: an instant equal to the call time is kept
RollForwardStrict(c, t) == IF c < t THEN c + TicksPerDay ELSE c

\* candidate = now.replace(...); if candidate <= now: candidate += timedelta(days=1)
RollForward(c, t) == IF c <= t THEN c + TicksPerDay ELSE c
Candidate(s, t) ==
    LET hm == ParseHourMinute(s)
    IN  IF ~hm.ok THEN ValueError
        ELSE LET c == Replace(t, hm.val[1], hm.val[2])
             IN  IF ~c.ok THEN ValueError ELSE Ok(RollForward(c.val, t))

\* ------------------------------------------------------- ScheduleManager
DefaultFrequency == 24
DefaultSchedule ==
    [next_post_time |-> NoneV, frequency_hours |-> DefaultFrequency,
     enabled |-> TRUE, next_run_at |-> NoneV]

Truthy(s) == s # NoneV /\ s # <<>>

\* set_next_post_time(post_time): the record after the call
SetNextPostTimeRec(s, v, t) ==
    LET s1 == [s EXCEPT !.next_post_time = v]
    IN  IF Truthy(v) /\ Contains(v, ":") /\ Len(v) <= 5
        THEN LET c == Candidate(v, t)
             IN  IF c.ok THEN [s1 EXCEPT !.next_run_at = IsoFormat(Dt(c.val, FALSE))]
                 ELSE s1
        ELSE s1

\* a set_frequency that would also drop the computed next run
SetFrequencyReschedules(s, h) == [s EXCEPT !.frequency_hours = h, !.next_run_at = NoneV]
\* set_frequency(hours): the record after the call
SetFrequencyRec(s, h) == [s EXCEPT !.frequency_hours = h]
\* a set_enabled that would also forget the cached next run
SetEnabledForgetsNextRun(s, b) == [s EXCEPT !.enabled = b, !.next_run_at = NoneV]
SetEnabledRec(s, b) == [s EXCEPT !.enabled = b]

\* get_next_run_at(): the cached next_run_at, parsed
CachedNextRun(s) ==
    IF Truthy(s.next_run_at) THEN FromIsoFormat(s.next_run_at) ELSE ValueError

\* get_next_run_at(): whether the value is derived from next_post_time and stored
DerivesNextRun(s, t) ==
    /\ ~CachedNextRun(s).ok
    /\ Truthy(s.next_post_time)
    /\ Contains(s.next_post_time, ":")
    /\ Candidate(s.next_post_time, t).ok

\* get_next_run_at(): the value returned, a datetime or None
GetNextRunAtVal(s, t) ==
    IF CachedNextRun(s).ok THEN CachedNextRun(s).val
    ELSE IF DerivesNextRun(s, t) THEN Dt(Candidate(s.next_post_time, t).val, FALSE)
    ELSE NoneV

\* variant of GetNextRunAtRec: the derived value is returned but not kept
GetNextRunAtKeepsNothing(s, t) == s

\* get_next_run_at(): the record after the call
GetNextRunAtRec(s, t) ==
    IF DerivesNextRun(s, t)
    THEN [s EXCEPT !.next_run_at = IsoFormat(Dt(Candidate(s.next_post_time, t).val, FALSE))]
    ELSE s

\* variant of SetNextRunAfterPublishRec: counts from the previous due time
SetNextRunAfterPublishFromPrevious(s, t) ==
    LET base == IF CachedNextRun(s).ok THEN Instant(CachedNextRun(s).val) ELSE t
    IN  [s EXCEPT !.next_run_at =
            IsoFormat(Dt(base + s.frequency_hours * TicksPerHour, FALSE))]

\* variant of SetNextRunAfterPublishRec: the due time is left where it was
SetNextRunAfterPublishKeeps(s, t) == s

\* set_next_run_after_publish(): the record after the call
SetNextRunAfterPublishRec(s, t) ==
    [s EXCEPT !.next_run_at = IsoFormat(Dt(t + s.frequency_hours * TicksPerHour, FALSE))]

\* ----------------------------------------------- persistence of the schedule
PostTimeColumnWidth == 10

\* schedule.json does not exist
NoFile == [absent |-> TRUE]

\* the schedule row as init_db creates it
DefaultRow ==
    [next_post_time |-> NoneV, frequency_hours |-> DefaultFrequency,
     enabled |-> TRUE, next_run_at |-> NoneV]

\* db_schedule_save: the row after the UPDATE; the row is kept when the UPDATE is
\* rejected (next_post_time longer than its VARCHAR(10) column).  The TIMESTAMPTZ
\* column holds the instant of the ISO string, with a time zone.
DbScheduleSave(row, s) ==
    IF s.next_post_time # NoneV /\ Len(s.next_post_time) > PostTimeColumnWidth THEN row
    ELSE [next_post_time |-> s.next_post_time,
          frequency_hours |-> s.frequency_hours,
          enabled |-> s.enabled,
          next_run_at |-> IF s.next_run_at = NoneV THEN NoneV
                          ELSE Dt(Instant(FromIsoFormat(s.next_run_at).val), TRUE)]

\* db_schedule_load: a TIMESTAMPTZ column is read as an aware datetime
DbScheduleLoad(row) ==
    [next_post_time |-> row.next_post_time,
     frequency_hours |-> IF row.frequency_hours = 0 THEN DefaultFrequency
                         ELSE row.frequency_hours,
     enabled |-> row.enabled,
     next_run_at |-> IF row.next_run_at = NoneV THEN NoneV
                     ELSE IsoFormat(row.next_run_at)]

\* _save_schedule: the persisted schedule after the call
SaveSchedule(db, st, s) == IF db THEN DbScheduleSave(st, s) ELSE s

\* _load_schedule: the record a ScheduleManager starts with
LoadSchedule(db, st) ==
    IF db THEN DbScheduleLoad(st)
    ELSE IF st = NoFile THEN DefaultSchedule ELSE st

\* ------------------------------------------------------------- inputs
T0900 == <<"0", "9", ":", "0", "0">>
T2100 == <<"2", "1", ":", "0", "0">>
T2400 == <<"2", "4", ":", "0", "0">>
TIso == <<"2", "0", "2", "5", "-", "0", "1", "-", "0", "1", "T",
          "0", "9", ":", "0", "0", ":", "0", "0">>
PostTimeValues == {T0900, T2100, T2400, TIso}
FrequencyValues == {12, DefaultFrequency}

\* the clock starts on day 0 half a minute before 09:00, or at 09:00 sharp
NineSharp == (9 * MinutesPerHour) * TicksPerMinute
StartInstants == {NineSharp - 1, NineSharp}

\* Settings as read from the environment.  The token is set (without it the bot
\* cannot answer at all), TELEGRAM_GROUP_ID and LOCAL_TIMEZONE are not set.
AdminId == <<"4", "2">>
OtherId == <<"7", "7">>
SettingsValues ==
    [zapier_mode : BOOLEAN, admin_chat_id : {AdminId, NoneV},
     telegram_token : {<<"t", "o", "k", "e", "n">>}, telegram_group_id : {NoneV},
     local_timezone : {NoneV}]

\* LOCAL_TIMEZONE=Europe/Moscow: a zone at a fixed offset from the server's UTC
LocalOffsetHours == 3
LocalZone == <<"zone", LocalOffsetHours>>

\* the environment with nothing but the token set
DefaultSettings ==
    [zapier_mode |-> FALSE, admin_chat_id |-> NoneV,
     telegram_token |-> <<"t", "o", "k", "e", "n">>, telegram_group_id |-> NoneV,
     local_timezone |-> NoneV]

\* relay should-post requests that can be in flight together
PollIds == {"poll1", "poll2"}

\* -------------------------------------------------------------- actions
\* the groups table and the comments table of a fresh relational instance
EmptyTwin == [rows |-> <<>>, comments |-> <<>>]

\* webhook requests that can be in flight together
Handlers == {"w1", "w2"}
WebAtRest ==
    [pc |-> [h \in Handlers |-> "idle"], current |-> [h \in Handlers |-> NoneV],
     toggles |-> 0]

\* the loop sleeps and no request is in flight
InitAtRest ==
    /\ loopPc = "sleeping"
    /\ poll = [p \in PollIds |-> "idle"]
    /\ cancelled = FALSE
    /\ twin = EmptyTwin
    /\ posts = <<>>
    /\ web = WebAtRest

\* the managers as constructed on a first start: nothing persisted yet
InitSchedule ==
    /\ now \in StartInstants
    /\ use_db \in BOOLEAN
    /\ stored = IF use_db THEN DefaultRow ELSE NoFile
    /\ schedule = LoadSchedule(use_db, stored)

InitGroups ==
    /\ groups = <<>>
    /\ active_group_id = NoneV
    /\ group_rows = <<>>

InitNoComments ==
    /\ comments = <<>>
    /\ added = 0

InitStore ==
    /\ InitSchedule
    /\ InitGroups
    /\ InitNoComments
    /\ settings = DefaultSettings
    /\ InitAtRest
    /\ ev = [op |-> "init"]

\* time passes
Advance ==
    /\ now + StepHours * TicksPerHour <= MaxNow
    /\ now' = now + StepHours * TicksPerHour
    /\ ev' = [op |-> "advance"]
    /\ UNCHANGED <<use_db, schedule, stored, groupVars, commentVars, sysVars>>

\* a mutator of the ScheduleManager: the record changes and is saved
Mutate(s) ==
    /\ schedule' = s
    /\ stored' = SaveSchedule(use_db, stored, s)
    /\ UNCHANGED <<now, use_db>>

SetNextPostTime ==
    \E v \in PostTimeValues :
        /\ Mutate(SetNextPostTimeRec(schedule, v, now))
        /\ ev' = [op |-> "set_next_post_time", arg |-> v]
        /\ UNCHANGED <<groupVars, commentVars, sysVars>>

SetFrequency ==
    \E h \in FrequencyValues :
        /\ Mutate(SetFrequencyRec(schedule, h))
        /\ ev' = [op |-> "set_frequency", arg |-> h]
        /\ UNCHANGED <<groupVars, commentVars, sysVars>>

SetEnabled ==
    \E b \in BOOLEAN :
        /\ Mutate(SetEnabledRec(schedule, b))
        /\ ev' = [op |-> "set_enabled", arg |-> b]
        /\ UNCHANGED <<groupVars, commentVars, sysVars>>

\* get_next_run_at saves only when it derives the value
GetNextRunAtStep ==
    /\ schedule' = GetNextRunAtRec(schedule, now)
    /\ stored' = IF DerivesNextRun(schedule, now)
                 THEN SaveSchedule(use_db, stored, schedule')
                 ELSE stored
    /\ UNCHANGED <<now, use_db>>

GetNextRunAt ==
    /\ GetNextRunAtStep
    /\ ev' = [op |-> "get_next_run_at", ret |-> GetNextRunAtVal(schedule, now),
              derived |-> DerivesNextRun(schedule, now)]
    /\ UNCHANGED <<groupVars, commentVars, sysVars>>

SetNextRunAfterPublish ==
    /\ Mutate(SetNextRunAfterPublishRec(schedule, now))
    /\ ev' = [op |-> "set_next_run_after_publish", prev |-> schedule.next_run_at]
    /\ UNCHANGED <<groupVars, commentVars, sysVars>>

\* the process restarts: a new ScheduleManager loads the persisted schedule
RestartStore ==
    /\ schedule' = LoadSchedule(use_db, stored)
    /\ ev' = [op |-> "restart"]
    /\ UNCHANGED <<now, use_db, stored, groupVars, commentVars, sysVars>>

NextStore ==
    \/ Advance
    \/ SetNextPostTime
    \/ SetFrequency
    \/ SetEnabled
    \/ GetNextRunAt
    \/ SetNextRunAfterPublish
    \/ RestartStore

SpecStore == InitStore /\ [][NextStore]_vars

\* the reader of the next run beside a writer that is given times of more than
\* five characters, which set_next_post_time stores without deriving the next run
T2100Seconds == <<"2", "1", ":", "0", "0", ":", "0", "0">>
MemoTimeValues == {T0900, T2100Seconds, T2400}

SetNextPostTimeLong ==
    \E v \in MemoTimeValues :
        /\ Mutate(SetNextPostTimeRec(schedule, v, now))
        /\ ev' = [op |-> "set_next_post_time", arg |-> v]
        /\ UNCHANGED <<groupVars, commentVars, sysVars>>

NextMemo ==
    \/ Advance
    \/ SetNextPostTimeLong
    \/ GetNextRunAt
    \/ SetNextRunAfterPublish
    \/ RestartStore

SpecMemo == InitStore /\ [][NextMemo]_vars

\* ------------------------------------------------ properties of the store
\* "%02d:%02d" % (h, m)
TwoDigits(n) == <<Digits[(n \div 10) + 1], Digits[(n % 10) + 1]>>
HHMM(h, m) == TwoDigits(h) \o <<":">> \o TwoDigits(m)

\* the instant h:m of the day that contains t
TodayAt(t, h, m) ==
    (t \div TicksPerDay) * TicksPerDay + (h * MinutesPerHour + m) * TicksPerMinute

\* the next occurrence of h:m strictly after t
NextOccurrence(t, h, m) ==
    IF TodayAt(t, h, m) > t THEN TodayAt(t, h, m) ELSE TodayAt(t, h, m) + TicksPerDay

\* C1: after set_next_post_time("HH:MM") with a valid hour and minute, next_run_at
\* is today at HH:MM if that is still in the future at the call time and tomorrow
\* at HH:MM otherwise (an instant equal to the call time rolls to tomorrow), it is
\* strictly later than the call time, and get_next_run_at() returns that instant.
C1_SetTimeSchedulesNextOccurrence ==
    ev.op = "set_next_post_time" =>
        \A h \in {x \in 0..MaxHour : Take(ev.arg, 2) = TwoDigits(x)} :
        \A m \in 0..MaxMinute :
            ev.arg = HHMM(h, m) =>
                /\ schedule.next_run_at = IsoFormat(Dt(NextOccurrence(now, h, m), FALSE))
                /\ Instant(FromIsoFormat(schedule.next_run_at).val) > now
                /\ GetNextRunAtVal(schedule, now) = Dt(NextOccurrence(now, h, m), FALSE)

\* C1 witness: "09:00" is set at 09:00:00 sharp and the run is scheduled for tomorrow
C1_Witness ==
    /\ ev.op = "set_next_post_time"
    /\ ev.arg = HHMM(9, 0)
    /\ now = TodayAt(now, 9, 0)
    /\ schedule.next_run_at = IsoFormat(Dt(now + TicksPerDay, FALSE))

\* C2: set_next_run_after_publish() sets next_run_at to the call time plus
\* frequency_hours, whatever it was before, and changes no other field.
C2_RollForwardFromCallTime ==
    [][ev'.op = "set_next_run_after_publish" =>
          schedule' = [schedule EXCEPT !.next_run_at =
              IsoFormat(Dt(now + schedule.frequency_hours * TicksPerHour, FALSE))]]_vars

\* C2 witness: the call replaced a next_run_at that lay in the past
C2_Witness ==
    /\ ev.op = "set_next_run_after_publish"
    /\ ev.prev # NoneV
    /\ Instant(FromIsoFormat(ev.prev).val) < now
    /\ schedule.next_run_at =
           IsoFormat(Dt(now + schedule.frequency_hours * TicksPerHour, FALSE))

\* ------------------------------------------------------- CommentsManager
CommentsCap == 200

\* list[-n:], and the rows that DELETE ... NOT IN (ORDER BY id DESC LIMIT n) keeps
LastN(l, n) == IF Len(l) > n THEN SubSeq(l, Len(l) - n + 1, Len(l)) ELSE l

\* variant of LastN: the newest records are dropped instead of the oldest
FirstN(l, n) == IF Len(l) > n THEN SubSeq(l, 1, n) ELSE l

\* the record add_comment appends, file backend
FileCommentRecord(chat, mid, text, ts, t) ==
    [chat_id |-> chat,
     message_id |-> mid,
     text |-> text,
     timestamp |-> IF Truthy(ts) THEN ts ELSE IsoFormat(Dt(t, FALSE))]

\* CommentsManager.add_comment, file backend: the list after the call
FileAddComment(cs, chat, mid, text, ts, t) ==
    LET l == Append(cs, FileCommentRecord(chat, mid, text, ts, t))
    IN  IF Len(l) > CommentsCap THEN LastN(l, CommentsCap) ELSE l

\* the row db_comments_add inserts; ts is the parsed timestamp
DbCommentRow(chat, mid, text, ts) ==
    [chat_id |-> chat,
     message_id |-> IF Truthy(mid) THEN mid ELSE NoneV,
     text |-> text,
     timestamp |-> Dt(Instant(ts), TRUE)]

\* db_comments_add: the table after the call; a timestamp that fromisoformat
\* rejects raises inside the try block and nothing is inserted
DbCommentsAdd(rows, chat, mid, text, ts, t) ==
    LET parsed == IF Truthy(ts) THEN FromIsoFormat(ts) ELSE Ok(Dt(t, FALSE))
    IN  IF ~parsed.ok THEN rows
        ELSE LastN(Append(rows, DbCommentRow(chat, mid, text, parsed.val)), CommentsCap)

AddCommentTo(db, cs, chat, mid, text, ts, t) ==
    IF db THEN DbCommentsAdd(cs, chat, mid, text, ts, t)
    ELSE FileAddComment(cs, chat, mid, text, ts, t)

\* get_latest_comment_any / db_comments_get_latest_any
LatestCommentAny(cs) == IF cs = <<>> THEN NoneV ELSE cs[Len(cs)].text

\* inputs: two chats; the text of the n-th call names the call
ChatA == <<"-", "1", "0", "0", "1">>
ChatB == <<"-", "1", "0", "0", "2">>
ChatC == <<"-", "1", "0", "0", "3">>
Text(n) == <<"text", n>>
BadStamp == <<"y", "e", "s", "t", "e", "r", "d", "a", "y">>
StampValues == {NoneV, IsoFormat(Dt(0, FALSE)), BadStamp}

\* a cache that n < 200 earlier add_comment calls have filled
Filled(db, n, t) ==
    [k \in 1..n |->
        IF db THEN DbCommentRow(ChatA, NoneV, Text(k), Dt(t, FALSE))
        ELSE FileCommentRecord(ChatA, NoneV, Text(k), NoneV, t)]

InitComments ==
    /\ InitSchedule
    /\ InitGroups
    /\ added \in {0, CommentsCap - 1}
    /\ comments = Filled(use_db, added, now)
    /\ settings = DefaultSettings
    /\ InitAtRest
    /\ ev = [op |-> "init"]

\* add_comment calls made in this run
AddsInRun == IF added >= CommentsCap - 1 THEN added - (CommentsCap - 1) ELSE added

AddComment ==
    /\ AddsInRun < MaxAdds
    /\ \E chat \in {ChatA, ChatB}, ts \in StampValues :
          /\ comments' = AddCommentTo(use_db, comments, chat, NoneV, Text(added + 1), ts, now)
          /\ ev' = [op |-> "add_comment", chat |-> chat, ts |-> ts]
    /\ added' = added + 1
    /\ UNCHANGED <<storeVars, groupVars, sysVars>>

NextComments == AddComment

SpecComments == InitComments /\ [][NextComments]_vars

\* C7: the cache holds at most 200 records, exactly the most recently inserted
\* ones in insertion order: adding to a full cache keeps the size, removes the
\* oldest record and contains the new one, whatever timestamps are supplied.
C7_CacheHoldsLastInserted ==
    LET n == IF added < CommentsCap THEN added ELSE CommentsCap
    IN  /\ Len(comments) = n
        /\ \A i \in 1..n : comments[i].text = Text(added - n + i)

\* the cap alone: the cache never holds more than 200 records
CommentsWithinCap == Len(comments) <= CommentsCap

\* ---------------------------------------------------------- StatsManager
StatsCap == 100

\* the record add_post appends, file backend
FilePostRecord(post_id, text_id, photo_id, t) ==
    [post_id |-> post_id, text_id |-> text_id, photo_id |-> photo_id,
     timestamp |-> IsoFormat(Dt(t, FALSE)), views |-> 0, comments |-> 0]

\* variant of FileAddPost: the newest records are dropped instead of the oldest
FileAddPostKeepsOldest(ps, post_id, text_id, photo_id, t) ==
    FirstN(Append(ps, FilePostRecord(post_id, text_id, photo_id, t)), StatsCap)

\* StatsManager.add_post, file backend: the list after the call
FileAddPost(ps, post_id, text_id, photo_id, t) ==
    LET l == Append(ps, FilePostRecord(post_id, text_id, photo_id, t))
    IN  IF Len(l) > StatsCap THEN LastN(l, StatsCap) ELSE l

\* db_stats_add_post: INSERT, then DELETE all but the 100 highest ids
DbStatsAddPost(rows, post_id, text_id, photo_id, t) ==
    LastN(Append(rows, [post_id |-> post_id, text_id |-> text_id, photo_id |-> photo_id,
                        ts |-> Dt(t, TRUE), views |-> 0, comments |-> 0]),
          StatsCap)

AddPostTo(db, ps, post_id, text_id, photo_id, t) ==
    IF db THEN DbStatsAddPost(ps, post_id, text_id, photo_id, t)
    ELSE FileAddPost(ps, post_id, text_id, photo_id, t)

\* the record is the one update_post_stats is asked about
PostMatches(p, id) == p.post_id = id \/ p.text_id = id \/ p.photo_id = id

\* StatsManager.update_post_stats, file backend: the first matching record
FileUpdatePostStats(ps, id, views, n_comments) ==
    IF \E i \in 1..Len(ps) : PostMatches(ps[i], id)
    THEN LET i == CHOOSE k \in 1..Len(ps) :
                     /\ PostMatches(ps[k], id)
                     /\ \A j \in 1..(k - 1) : ~PostMatches(ps[j], id)
         IN  [ps EXCEPT ![i].views = views, ![i].comments = n_comments]
    ELSE ps

\* db_stats_update_post: UPDATE ... WHERE post_id = or text_id = or photo_id =
DbStatsUpdatePost(rows, id, views, n_comments) ==
    [i \in 1..Len(rows) |->
        IF PostMatches(rows[i], id)
        THEN [rows[i] EXCEPT !.views = views, !.comments = n_comments]
        ELSE rows[i]]

\* the n-th message id
PostId(n) == <<"post", n>>

\* the number the next add_post of this run gets
NextPostNo(ps) == IF ps = <<>> THEN 1 ELSE ps[Len(ps)].post_id[2] + 1

\* a collection that n < 100 earlier add_post calls have filled
FilledPosts(db, n, t) ==
    [k \in 1..n |->
        IF db THEN [post_id |-> PostId(k), text_id |-> PostId(k), photo_id |-> NoneV,
                    ts |-> Dt(t, TRUE), views |-> 0, comments |-> 0]
        ELSE FilePostRecord(PostId(k), PostId(k), NoneV, t)]

InitStats ==
    /\ InitSchedule
    /\ InitGroups
    /\ InitNoComments
    /\ settings = DefaultSettings
    /\ loopPc = "sleeping"
    /\ poll = [p \in PollIds |-> "idle"]
    /\ cancelled = FALSE
    /\ twin = EmptyTwin
    /\ \E n \in {0, StatsCap - 1} : posts = FilledPosts(use_db, n, now)
    /\ web = WebAtRest
    /\ ev = [op |-> "init"]

\* add_post(post_id, text_id, photo_id), as the pipeline calls it for a delivered
\* post; the calls made in one run are bounded
AddPost ==
    /\ NextPostNo(posts) <= MaxAdds \/ NextPostNo(posts) \in StatsCap..(StatsCap + MaxAdds - 1)
    /\ \E with_photo \in BOOLEAN :
       \E id \in {PostId(NextPostNo(posts))} :
          /\ posts' = AddPostTo(use_db, posts, id,
                                IF with_photo THEN NoneV ELSE id,
                                IF with_photo THEN id ELSE NoneV, now)
          /\ ev' = [op |-> "add_post", id |-> id]
    /\ UNCHANGED <<storeVars, groupVars, commentVars, settings, loopPc, poll, cancelled,
                   twin, web>>

\* update_post_stats(id, views, comments) for a message id, known or not
UpdatePostStats ==
    /\ \E n \in {1, StatsCap - 1, StatsCap + 1}, comments_count \in {0, 1} :
          /\ posts' = IF use_db
                       THEN DbStatsUpdatePost(posts, PostId(n), 0, comments_count)
                       ELSE FileUpdatePostStats(posts, PostId(n), 0, comments_count)
          /\ ev' = [op |-> "update_post_stats", id |-> PostId(n)]
    /\ UNCHANGED <<storeVars, groupVars, commentVars, settings, loopPc, poll, cancelled,
                   twin, web>>

NextStats == AddPost \/ UpdatePostStats

SpecStats == InitStats /\ [][NextStats]_vars

\* --------------------------------------------------------- GroupsManager
\* f"Группа {gid}" (transliterated)
DefaultTitle(gid) == <<"G", "r", "u", "p", "p", "a", " ">> \o gid

\* title or default
OrElse(x, d) == IF Truthy(x) THEN x ELSE d

\* index of the first record with this group_id, 0 if there is none
IndexOf(gs, gid) ==
    IF \E i \in 1..Len(gs) : gs[i].group_id = gid
    THEN CHOOSE i \in 1..Len(gs) :
            /\ gs[i].group_id = gid
            /\ \A j \in 1..(i - 1) : gs[j].group_id # gid
    ELSE 0

\* GroupsManager.add_group, file backend: the list after the call
FileAddGroup(gs, gid, title) ==
    LET i == IndexOf(gs, gid)
    IN  IF i > 0 THEN [gs EXCEPT ![i].title = OrElse(title, gs[i].title)]
        ELSE Append(gs, [group_id |-> gid, title |-> OrElse(title, DefaultTitle(gid))])

\* variant of FileSetActiveGroups: a record is appended on every call
FileSetActiveAlwaysAppends(gs, gid) ==
    Append(gs, [group_id |-> gid, title |-> DefaultTitle(gid)])

\* variant of FileSetActiveGroups: an unknown id gets no record
FileSetActiveNeverAppends(gs, gid) == gs

\* GroupsManager.set_active, file backend: the list after the call
FileSetActiveGroups(gs, gid) ==
    IF IndexOf(gs, gid) > 0 THEN gs
    ELSE Append(gs, [group_id |-> gid, title |-> DefaultTitle(gid)])

\* db_groups_add: INSERT ... ON CONFLICT (group_id) DO UPDATE SET title
DbGroupsAdd(rows, gid, title) ==
    LET i == IndexOf(rows, gid)
        t == OrElse(title, gid)
    IN  IF i > 0 THEN [rows EXCEPT ![i].title = t]
        ELSE Append(rows, [group_id |-> gid, title |-> t, is_active |-> FALSE])

\* variant of ClearActive: the flags are left as they are
ClearNothing(rows) == rows

\* db_groups_set_active, statement by statement
ClearActive(rows) == [i \in 1..Len(rows) |-> [rows[i] EXCEPT !.is_active = FALSE]]
MarkActive(rows, gid) ==
    [i \in 1..Len(rows) |->
        IF rows[i].group_id = gid THEN [rows[i] EXCEPT !.is_active = TRUE] ELSE rows[i]]
InsertActive(rows, gid) ==
    Append(rows, [group_id |-> gid, title |-> DefaultTitle(gid), is_active |-> TRUE])

\* db_groups_set_active: the table after the first `done` statements have run
\* (autocommit: a failure keeps what the earlier statements did)
StatementsOfSetActive == 3
DbGroupsSetActive(rows, gid, done) ==
    LET s1 == IF done >= 1 THEN ClearActive(rows) ELSE rows
        s2 == IF done >= 2 THEN MarkActive(s1, gid) ELSE s1
    IN  IF done >= StatementsOfSetActive /\ IndexOf(rows, gid) = 0
        THEN InsertActive(s2, gid) ELSE s2

\* db_groups_load: (groups, active_group_id)
DbGroupsLoadGroups(rows) ==
    [i \in 1..Len(rows) |-> [group_id |-> rows[i].group_id, title |-> rows[i].title]]
DbGroupsLoadActive(rows) ==
    IF \E i \in 1..Len(rows) : rows[i].is_active
    THEN rows[CHOOSE i \in 1..Len(rows) :
                 rows[i].is_active /\ \A j \in 1..(i - 1) : ~rows[j].is_active].group_id
    ELSE IF rows # <<>> THEN rows[1].group_id
    ELSE NoneV

\* variant of GetActive: no fallback to the first group
GetActiveExplicitOnly(gs, active) == active

\* GroupsManager.get_active
GetActive(gs, active) ==
    IF Truthy(active) THEN active
    ELSE IF gs # <<>> THEN gs[1].group_id
    ELSE NoneV

\* GroupsManager.add_group as one step on the three group variables
AddGroupStep(gid, title) ==
    IF use_db
    THEN /\ group_rows' = DbGroupsAdd(group_rows, gid, OrElse(title, DefaultTitle(gid)))
         /\ groups' = DbGroupsLoadGroups(group_rows')
         /\ active_group_id' = DbGroupsLoadActive(group_rows')
    ELSE /\ groups' = FileAddGroup(groups, gid, title)
         /\ UNCHANGED <<active_group_id, group_rows>>

\* GroupsManager.set_active as one step on the three group variables
SetActiveStep(gid, done) ==
    IF use_db
    THEN /\ group_rows' = DbGroupsSetActive(group_rows, gid, done)
         /\ groups' = DbGroupsLoadGroups(group_rows')
         /\ active_group_id' = DbGroupsLoadActive(group_rows')
    ELSE /\ groups' = FileSetActiveGroups(groups, gid)
         /\ active_group_id' = gid
         /\ UNCHANGED group_rows

GroupIds == {ChatA, ChatB, ChatC}
TitleT == <<"T", "r", "i", "p", "s">>
TitleValues == {<<>>, TitleT}

InitRegistry ==
    /\ InitSchedule
    /\ InitGroups
    /\ InitNoComments
    /\ settings = DefaultSettings
    /\ InitAtRest
    /\ ev = [op |-> "init"]

AddGroup ==
    \E gid \in GroupIds, title \in TitleValues :
        /\ AddGroupStep(gid, title)
        /\ ev' = [op |-> "add_group", gid |-> gid, title |-> title]
        /\ UNCHANGED <<storeVars, commentVars, sysVars>>

SetActive ==
    \E gid \in GroupIds, done \in 0..StatementsOfSetActive :
        /\ ~use_db => done = StatementsOfSetActive
        /\ SetActiveStep(gid, done)
        /\ ev' = [op |-> "set_active", gid |-> gid, done |-> done]
        /\ UNCHANGED <<storeVars, commentVars, sysVars>>

NextRegistry == AddGroup \/ SetActive

SpecRegistry == InitRegistry /\ [][NextRegistry]_vars

\* C8: at most one group is active in every reachable state: at most one record
\* carries the active id (file backend), at most one row has is_active set
\* (relational backend).
C8_AtMostOneActive ==
    /\ Cardinality({i \in 1..Len(groups) : groups[i].group_id = active_group_id}) <= 1
    /\ Cardinality({i \in 1..Len(group_rows) : group_rows[i].is_active}) <= 1

\* C8 witness: the active group was switched while three groups are registered
C8_Witness ==
    /\ ev.op = "set_active"
    /\ Len(groups) = 3
    /\ active_group_id = ev.gid
    /\ active_group_id # groups[1].group_id
    /\ use_db => \E i \in 1..Len(group_rows) :
                     group_rows[i].is_active /\ group_rows[i].group_id = ev.gid

\* ------------------------------------------------------ the two backends
\* get_latest_comment_for_chat / db_comments_get_latest_for_chat
LatestCommentFor(cs, chat) ==
    IF \E i \in 1..Len(cs) : cs[i].chat_id = chat
    THEN cs[CHOOSE i \in 1..Len(cs) :
               /\ cs[i].chat_id = chat
               /\ \A j \in (i + 1)..Len(cs) : cs[j].chat_id # chat].text
    ELSE NoneV

\* a file-backed instance (groups, active_group_id, comments) and a
\* relational-backed one (twin) start empty and receive the same calls
InitParity ==
    /\ InitSchedule
    /\ ~use_db
    /\ InitGroups
    /\ InitNoComments
    /\ settings = DefaultSettings
    /\ InitAtRest
    /\ ev = [op |-> "init"]

\* the chats the two instances hear of
ParityChats == {ChatA, ChatB}

\* add_group(gid, title) on both instances
ParityAddGroup ==
    \E gid \in ParityChats, title \in TitleValues :
        /\ groups' = FileAddGroup(groups, gid, title)
        /\ twin' = [twin EXCEPT
                       !.rows = DbGroupsAdd(@, gid, OrElse(title, DefaultTitle(gid)))]
        /\ ev' = [op |-> "add_group", gid |-> gid, title |-> title]
        /\ UNCHANGED <<storeVars, active_group_id, group_rows, commentVars,
                       settings, loopPc, poll, cancelled, posts, web>>

\* set_active(gid) on both instances
ParitySetActive ==
    \E gid \in ParityChats :
        /\ groups' = FileSetActiveGroups(groups, gid)
        /\ active_group_id' = gid
        /\ twin' = [twin EXCEPT !.rows = DbGroupsSetActive(@, gid, StatementsOfSetActive)]
        /\ ev' = [op |-> "set_active", gid |-> gid, done |-> StatementsOfSetActive]
        /\ UNCHANGED <<storeVars, group_rows, commentVars, settings, loopPc, poll,
                       cancelled, posts, web>>

\* add_comment(chat, None, text, ts) on both instances
ParityAddComment ==
    /\ added < MaxAdds
    /\ \E chat \in ParityChats, ts \in StampValues :
          /\ comments' = FileAddComment(comments, chat, NoneV, Text(added + 1), ts, now)
          /\ twin' = [twin EXCEPT
                         !.comments = DbCommentsAdd(@, chat, NoneV, Text(added + 1), ts, now)]
          /\ ev' = [op |-> "add_comment", chat |-> chat, ts |-> ts]
    /\ added' = added + 1
    /\ UNCHANGED <<storeVars, groupVars, settings, loopPc, poll, cancelled, posts, web>>

NextParity == ParityAddGroup \/ ParitySetActive \/ ParityAddComment

SpecParity == InitParity /\ [][NextParity]_vars

\* ------------------------------------------------------------ the system
\* get_active_group_id()
GetActiveGroupId == OrElse(GetActive(groups, active_group_id), settings.telegram_group_id)

\* the process start with TELEGRAM_GROUP_ID set or not: when it is set and the
\* registry is empty, the group is added and made active; on the relational
\* backend with the database unreachable at that moment nothing is registered
DefaultGroupTitle == <<"G", "r", "u", "p", "p", "a", " ", "p", "o", " ", "u", "m", "o", "l", "c", "h", "a", "n", "i", "y", "u">>
InitDestination ==
    /\ InitSchedule
    /\ InitNoComments
    /\ settings \in {[DefaultSettings EXCEPT !.telegram_group_id = d] : d \in {NoneV, ChatC}}
    /\ \E reached \in BOOLEAN :
          /\ ~use_db => reached
          /\ IF Truthy(settings.telegram_group_id) /\ reached
             THEN /\ groups = <<[group_id |-> settings.telegram_group_id,
                                 title |-> DefaultGroupTitle]>>
                  /\ active_group_id = settings.telegram_group_id
                  /\ group_rows =
                         IF use_db
                         THEN <<[group_id |-> settings.telegram_group_id,
                                 title |-> DefaultGroupTitle, is_active |-> TRUE]>>
                         ELSE <<>>
             ELSE InitGroups
    /\ InitAtRest
    /\ ev = [op |-> "init"]

SpecDestination == InitDestination /\ [][NextRegistry]_vars

\* Settings.validate()
Validate ==
    IF settings.zapier_mode THEN Truthy(settings.telegram_token)
    ELSE Truthy(settings.telegram_token) /\ Truthy(GetActiveGroupId)

\* the process starts at 09:00 sharp with nothing persisted
Init ==
    /\ InitSchedule
    /\ now = NineSharp
    /\ InitGroups
    /\ InitNoComments
    /\ settings \in SettingsValues
    /\ InitAtRest
    /\ ev = [op |-> "init"]

\* ---------------------------------------------------------- _scheduler_loop
\* variant of LoopSkips: the enabled flag is not consulted
LoopNeverSkips == FALSE

\* if not schedule_manager.is_enabled(): continue
LoopSkips == ~schedule.enabled

\* variant of CaughtByLoop: the loop has no handler
CaughtByLoopNever(exc) == FALSE

\* except asyncio.CancelledError: break; except Exception: log, and iterate again
CaughtByLoop(exc) == exc # "CancelledError"

\* variant of BreaksOnCancel: the handler logs and iterates again
BreaksOnCancelNever == FALSE

\* the CancelledError thrown into the task ends it: the direct loop's handler
\* breaks, the relay loop has no handler and the task ends cancelled
BreaksOnCancel == TRUE

\* variant of RelayMode: the loop takes the direct branch whatever the mode
RelayModeNever == FALSE

\* if settings.zapier_mode: the loop takes its relay branch
RelayMode == settings.zapier_mode

\* relay mode: the loop only sleeps
LoopIdle ==
    /\ RelayMode
    /\ loopPc = "sleeping"
    /\ ~cancelled
    /\ ev' = [op |-> "tick", outcome |-> "relay"]
    /\ UNCHANGED <<storeVars, groupVars, commentVars, sysVars>>

\* direct mode: one iteration of the loop after its sleep, up to the first await
\* of the pipeline.  outcome: disabled | not_due | error (the comparison raised,
\* caught by the loop) | invalid (Settings.validate() failed) | started
LoopTick ==
    /\ ~RelayMode
    /\ loopPc = "sleeping"
    /\ ~cancelled
    /\ IF LoopSkips
       THEN /\ ev' = [op |-> "tick", outcome |-> "disabled"]
            /\ UNCHANGED <<storeVars, sysVars>>
       ELSE \E next_run \in {GetNextRunAtVal(schedule, now)} :
            \E due \in {IF next_run = NoneV THEN Ok(FALSE)
                         ELSE DtGE(Dt(now, FALSE), next_run)} :
            \E outcome \in {IF ~due.ok THEN "error"
                             ELSE IF ~due.val THEN "not_due"
                             ELSE IF ~Validate THEN "invalid"
                             ELSE "started"} :
                /\ GetNextRunAtStep
                /\ ev' = [op |-> "tick", outcome |-> outcome, next_run |-> next_run]
                /\ loopPc' = IF outcome = "started" THEN "generating"
                              ELSE IF outcome = "error" /\ ~CaughtByLoop("TypeError")
                              THEN "stopped"
                              ELSE loopPc
                /\ UNCHANGED <<settings, poll, cancelled, twin, posts, web>>
    /\ UNCHANGED <<groupVars, commentVars>>

\* ------------------------------------------------ generate_and_publish_post
\* the content is generated (comment lookup, text, image prompt, image), or one
\* of these steps raises and the except branch returns status "error"
PipeGenerate ==
    /\ loopPc = "generating"
    /\ ~cancelled
    /\ \E raised \in BOOLEAN :
          /\ loopPc' = IF raised THEN "sleeping" ELSE "publishing"
          /\ ev' = IF raised
                   THEN [op |-> "cycle_end", status |-> "error", delivered |-> FALSE,
                         rolls |-> 0]
                   ELSE [op |-> "generated"]
    /\ UNCHANGED <<storeVars, groupVars, commentVars, settings, poll, cancelled, twin, posts, web>>

\* send_post_with_image returned (photo_id, text_id), either may be None; then
\* (the statistics of a delivered post are followed in SpecStats, not here)
\* if schedule_manager.is_enabled(): schedule_manager.set_next_run_after_publish()
MessageIds == {NoneV, <<"5", "0", "1">>}
PipePublish ==
    /\ loopPc = "publishing"
    /\ ~cancelled
    /\ \E photo_id \in MessageIds, text_id \in MessageIds :
          /\ IF schedule.enabled
             THEN Mutate(SetNextRunAfterPublishRec(schedule, now))
             ELSE UNCHANGED storeVars
          /\ ev' = [op |-> "cycle_end", status |-> "success",
                    delivered |-> (Truthy(photo_id) \/ Truthy(text_id)),
                    rolls |-> IF schedule.enabled THEN 1 ELSE 0]
    /\ loopPc' = "sleeping"
    /\ UNCHANGED <<groupVars, commentVars, settings, poll, cancelled, twin, posts, web>>

\* lifespan after the yield: _scheduler_task.cancel(); the request is delivered
\* to the task at the await it is suspended on
Shutdown ==
    /\ loopPc # "stopped"
    /\ ~cancelled
    /\ cancelled' = TRUE
    /\ ev' = [op |-> "cancel", at |-> loopPc]
    /\ UNCHANGED <<storeVars, groupVars, commentVars, settings, loopPc, poll, twin, posts, web>>

\* CancelledError is raised at the task's current await: asyncio.sleep, or an
\* await inside generate_and_publish_post, whose handlers catch Exception only,
\* so the pipeline in flight is abandoned where it stands
LoopCancelled ==
    /\ cancelled
    /\ loopPc # "stopped"
    /\ cancelled' = FALSE
    /\ loopPc' = IF RelayMode THEN "stopped"
                  ELSE IF BreaksOnCancel THEN "stopped"
                  ELSE "sleeping"
    /\ ev' = [op |-> "cancelled", at |-> loopPc]
    /\ UNCHANGED <<storeVars, groupVars, commentVars, settings, poll, twin, posts, web>>

\* ------------------------------------------------------ zapier_should_post
\* the request up to its first await.  outcome: not_relay (400) | disabled |
\* not_due | error (the comparison raised, 500) | generating
PollStart(p) ==
    /\ poll[p] = "idle"
    /\ IF ~settings.zapier_mode
       THEN /\ ev' = [op |-> "poll", id |-> p, outcome |-> "not_relay"]
            /\ UNCHANGED <<storeVars, sysVars>>
       ELSE IF ~schedule.enabled
       THEN /\ ev' = [op |-> "poll", id |-> p, outcome |-> "disabled"]
            /\ UNCHANGED <<storeVars, sysVars>>
       ELSE \E next_run \in {GetNextRunAtVal(schedule, now)} :
            \E early \in {IF next_run = NoneV THEN Ok(TRUE)
                           ELSE DtLT(Dt(now, FALSE), next_run)} :
            \E outcome \in {IF ~early.ok THEN "error"
                             ELSE IF early.val THEN "not_due"
                             ELSE "generating"} :
                /\ GetNextRunAtStep
                /\ ev' = [op |-> "poll", id |-> p, outcome |-> outcome]
                /\ poll' = IF outcome = "generating"
                           THEN [poll EXCEPT ![p] = "generating"] ELSE poll
                /\ UNCHANGED <<settings, loopPc, cancelled, twin, posts, web>>
    /\ UNCHANGED <<groupVars, commentVars>>

\* variant of ReturnsPost: a generated post is withheld
ReturnsPostNever(post_data) == FALSE

\* if not post_data: 500; otherwise the post is returned with should_post true,
\* with no second look at the schedule and no lock around the generation
ReturnsPost(post_data) == Truthy(post_data)

\* _generate_post_content_for_zapier returned: None (500), or the post, and then
\* schedule_manager.set_next_run_after_publish() whatever the enabled flag is
PollFinish(p) ==
    /\ poll[p] = "generating"
    /\ \E post_data \in {NoneV, <<"p", "o", "s", "t">>} :
          /\ IF ReturnsPost(post_data)
             THEN Mutate(SetNextRunAfterPublishRec(schedule, now))
             ELSE UNCHANGED storeVars
          /\ ev' = [op |-> "poll_end", id |-> p, should_post |-> ReturnsPost(post_data),
                    rolls |-> IF ReturnsPost(post_data) THEN 1 ELSE 0,
                    post |-> post_data]
    /\ poll' = [poll EXCEPT ![p] = "idle"]
    /\ UNCHANGED <<groupVars, commentVars, settings, loopPc, cancelled, twin, posts, web>>

\* ------------------------------------------------------ handle_bot_command
\* str.lower()
UpperCase == <<"A", "B", "C", "D", "E", "F", "G", "H", "I", "J", "K", "L", "M", "N", "O",
               "P", "Q", "R", "S", "T", "U", "V", "W", "X", "Y", "Z">>
LowerCase == <<"a", "b", "c", "d", "e", "f", "g", "h", "i", "j", "k", "l", "m", "n", "o",
               "p", "q", "r", "s", "t", "u", "v", "w", "x", "y", "z">>
LowerChar(c) ==
    IF \E i \in 1..Len(UpperCase) : UpperCase[i] = c
    THEN LowerCase[CHOOSE i \in 1..Len(UpperCase) : UpperCase[i] = c]
    ELSE c
Lower(s) == [i \in 1..Len(s) |-> LowerChar(s[i])]

\* str.startswith(prefix)
StartsWith(s, prefix) == Len(s) >= Len(prefix) /\ SubSeq(s, 1, Len(prefix)) = prefix

\* str.split(maxsplit=1): the first token, and the rest of the text if there is any
RECURSIVE DropToken(_)
DropToken(s) == IF s = <<>> \/ IsSpace(Head(s)) THEN s ELSE DropToken(Tail(s))
SplitOnce(s) ==
    LET tokens == SplitWs(s)
        rest == LStrip(DropToken(LStrip(s)))
    IN  IF tokens = <<>> THEN <<>>
        ELSE IF rest = <<>> THEN <<tokens[1]>>
        ELSE <<tokens[1], rest>>

\* telegram_webhook: command = text.split(maxsplit=1)[0]
CommandOf(text) == SplitOnce(text)[1]

\* hour, minute = map(int, time_str.split(":")): exactly two integers
ParseTwoInts(s) ==
    LET pieces == Split(s, ":")
    IN  IF Len(pieces) # 2 THEN ValueError
        ELSE LET h == PyInt(pieces[1])
                 m == PyInt(pieces[2])
             IN  IF h.ok /\ m.ok THEN Ok(<<h.val, m.val>>) ELSE ValueError

\* variant of TimeInRange: every hour and minute passes
TimeInRangeAny(hour, minute) == TRUE

\* 0 <= hour <= 23 and 0 <= minute <= 59
TimeInRange(hour, minute) == hour \in 0..MaxHour /\ minute \in 0..MaxMinute

\* Settings.convert_local_time_to_server_hhmm(hour, minute) at the instant t, for
\* a configured zone: the next local occurrence of hour:minute, as server "HH:MM"
ConvertLocalTimeToServerHHMM(zone, hour, minute, t) ==
    LET offset == zone[2] * TicksPerHour
        local_now == t + offset
        candidate_local == RollForward(Replace(local_now, hour, minute).val, local_now)
        candidate_utc == candidate_local - offset
        minutes == (candidate_utc % TicksPerDay) \div TicksPerMinute
    IN  HHMM(minutes \div MinutesPerHour, minutes % MinutesPerHour)

\* the responses, by kind
Denied == "denied"

\* the command names
CmdStart == <<"/", "s", "t", "a", "r", "t">>
CmdHelp == <<"/", "h", "e", "l", "p">>
CmdSchedule == <<"/", "s", "c", "h", "e", "d", "u", "l", "e">>
CmdGenerateNow == <<"/", "g", "e", "n", "e", "r", "a", "t", "e", "_", "n", "o", "w">>
CmdSetTime == <<"/", "s", "e", "t", "t", "i", "m", "e">>
CmdSetLocal == <<"/", "s", "e", "t", "l", "o", "c", "a", "l">>
CmdSetFreq == <<"/", "s", "e", "t", "f", "r", "e", "q">>
CmdStats == <<"/", "s", "t", "a", "t", "s">>
CmdToggle == <<"/", "t", "o", "g", "g", "l", "e", "_", "s", "c", "h", "e", "d", "u", "l",
               "e">>
CmdGroups == <<"/", "g", "r", "o", "u", "p", "s">>
CmdSetGroup == <<"/", "s", "e", "t", "g", "r", "o", "u", "p">>
CmdAddGroup == <<"/", "a", "d", "d", "g", "r", "o", "u", "p">>
CmdNextPost == <<"/", "n", "e", "x", "t", "p", "o", "s", "t">>

\* variant of Authorized: every chat is the administrator's
AuthorizedAnyone(chat) == TRUE

\* if chat_id != settings.admin_chat_id: return the denial
Authorized(chat) == chat = settings.admin_chat_id

\* variant of FrequencyAccepted: zero and negative numbers pass
FrequencyAcceptedAny(hours) == TRUE

\* if hours < 1: return the error
FrequencyAccepted(hours) == ~(hours < 1)

\* the command texts the administrator's or another chat sends
TxtSetTime0900 == <<"/", "s", "e", "t", "t", "i", "m", "e", " ", "0", "9", ":", "0", "0">>
TxtSetTime2100 == <<"/", "s", "e", "t", "t", "i", "m", "e", " ", "2", "1", ":", "0", "0">>
TxtSetTimePadded == <<"/", "s", "e", "t", "t", "i", "m", "e", " ", "0", "0", "9", ":", "0", "0">>
TxtSetFreq12 == <<"/", "s", "e", "t", "f", "r", "e", "q", " ", "1", "2">>
TxtSetFreq0 == <<"/", "s", "e", "t", "f", "r", "e", "q", " ", "0">>
TxtSetFreqNeg == <<"/", "s", "e", "t", "f", "r", "e", "q", " ", "-", "3">>
TxtSetFreqAbc == <<"/", "s", "e", "t", "f", "r", "e", "q", " ", "a", "b", "c">>
TxtSetFreqNone == <<"/", "s", "e", "t", "f", "r", "e", "q">>
TxtToggle == <<"/", "t", "o", "g", "g", "l", "e", "_", "s", "c", "h", "e", "d", "u", "l",
               "e">>
TxtSetGroup == <<"/", "s", "e", "t", "g", "r", "o", "u", "p", " ", "-", "1", "0", "0", "1">>
TxtSchedule == <<"/", "s", "c", "h", "e", "d", "u", "l", "e">>
TxtSetTime2400 == <<"/", "s", "e", "t", "t", "i", "m", "e", " ", "2", "4", ":", "0", "0">>
TxtUnknown == <<"/", "p", "u", "b", "l", "i", "s", "h">>
\* the texts that reach a mutator of the schedule or of the groups
MutatingTexts ==
    {TxtSetTime0900, TxtSetTime2100, TxtSetTimePadded, TxtSetFreq12, TxtToggle,
     TxtSetGroup}
CommandTexts ==
    MutatingTexts \cup
    {TxtSetTime2400, TxtSetFreq0, TxtSetFreqNeg, TxtSetFreqAbc, TxtSetFreqNone,
     TxtSchedule, TxtUnknown}
TxtSetTimeNone == <<"/", "s", "e", "t", "t", "i", "m", "e">>
TxtSetTimeAbc == <<"/", "s", "e", "t", "t", "i", "m", "e", " ", "a", "b", "c">>
TxtSetTimeOne == <<"/", "s", "e", "t", "t", "i", "m", "e", " ", "9">>
TxtSetTimeThree == <<"/", "s", "e", "t", "t", "i", "m", "e", " ", "0", "9", ":", "0", "0", ":", "0", "0">>
TxtSetTime0960 == <<"/", "s", "e", "t", "t", "i", "m", "e", " ", "0", "9", ":", "6", "0">>
TxtSetLocal1000 == <<"/", "s", "e", "t", "l", "o", "c", "a", "l", " ", "1", "0", ":", "0", "0">>
TxtSetLocal0100 == <<"/", "s", "e", "t", "l", "o", "c", "a", "l", " ", "0", "1", ":", "0", "0">>
TxtSetLocalNone == <<"/", "s", "e", "t", "l", "o", "c", "a", "l">>
TxtSetLocal2500 == <<"/", "s", "e", "t", "l", "o", "c", "a", "l", " ", "2", "5", ":", "0", "0">>
TxtSetLocalAbc == <<"/", "s", "e", "t", "l", "o", "c", "a", "l", " ", "a", "b", ":", "c", "d">>
\* the /settime and /setlocal texts: well-formed ones and malformed ones
MalformedTimeTexts ==
    {TxtSetTimeNone, TxtSetTimeAbc, TxtSetTimeOne, TxtSetTimeThree, TxtSetTime2400,
     TxtSetTime0960, TxtSetLocalNone, TxtSetLocal2500, TxtSetLocalAbc}
TimeTexts ==
    MalformedTimeTexts \cup {TxtSetTime0900, TxtSetTime2100, TxtSetLocal1000, TxtSetLocal0100}
\* texts whose first token is none of the documented commands
TxtSetFreqX12 == <<"/", "s", "e", "t", "f", "r", "e", "q", "x", " ", "1", "2">>
TxtSetTimeFoo == <<"/", "s", "e", "t", "t", "i", "m", "e", "f", "o", "o", " ",
                   "2", "1", ":", "0", "0">>
TxtSetGroupX == <<"/", "s", "e", "t", "g", "r", "o", "u", "p", "x", " ", "-", "1", "0", "0", "1">>
TxtToggleX == <<"/", "t", "o", "g", "g", "l", "e", "_", "s", "c", "h", "e", "d", "u", "l",
                "e", "x">>
UnrecognizedTexts == {TxtUnknown, TxtSetFreqX12, TxtSetTimeFoo, TxtSetGroupX, TxtToggleX}
AllTexts == CommandTexts \cup TimeTexts \cup UnrecognizedTexts
ChatIds == {AdminId, OtherId}

\* what the webhook and the handler compute from a text before they branch:
\* text.split(maxsplit=1), message_text.split() and command.lower().strip()
SplitOnceOf == [text \in AllTexts |-> SplitOnce(text)]
PartsOf == [text \in AllTexts |-> SplitWs(text)]
CommandNameOf == [text \in AllTexts |-> Strip(Lower(CommandOf(text)))]


\* the reply of a branch that changes nothing
Reply(chat, text, resp) ==
    /\ ev' = [op |-> "cmd", chat |-> chat, text |-> text, resp |-> resp]
    /\ UNCHANGED <<storeVars, groupVars>>

\* the /settime branch
SetTimeBranch(chat, text) ==
    LET parts == PartsOf[text]
    IN  IF Len(parts) < 2 THEN Reply(chat, text, "usage")
        ELSE LET hm == ParseTwoInts(parts[2])
             IN  IF ~hm.ok THEN Reply(chat, text, "bad_format")
                 ELSE IF ~TimeInRange(hm.val[1], hm.val[2])
                 THEN Reply(chat, text, "bad_value")
                 ELSE /\ Mutate(SetNextPostTimeRec(schedule, parts[2], now))
                      /\ ev' = [op |-> "cmd", chat |-> chat, text |-> text, resp |-> "ok"]
                      /\ UNCHANGED groupVars

\* the /setlocal branch; the conversion returns None when it raises
SetLocalBranch(chat, text) ==
    LET parts == PartsOf[text]
    IN  IF Len(parts) < 2 THEN Reply(chat, text, "usage")
        ELSE IF ~Truthy(settings.local_timezone) THEN Reply(chat, text, "no_timezone")
        ELSE LET hm == ParseTwoInts(parts[2])
             IN  IF ~hm.ok THEN Reply(chat, text, "bad_format")
                 ELSE IF ~TimeInRange(hm.val[1], hm.val[2])
                 THEN Reply(chat, text, "bad_value")
                 ELSE \E server_time \in
                          {NoneV, ConvertLocalTimeToServerHHMM(settings.local_timezone,
                                                               hm.val[1], hm.val[2], now)} :
                      IF ~Truthy(server_time) THEN Reply(chat, text, "not_converted")
                      ELSE /\ Mutate(SetNextPostTimeRec(schedule, server_time, now))
                           /\ ev' = [op |-> "cmd", chat |-> chat, text |-> text,
                                     resp |-> "ok"]
                           /\ UNCHANGED groupVars

\* the /setfreq branch
SetFreqBranch(chat, text) ==
    LET parts == PartsOf[text]
    IN  IF Len(parts) < 2 THEN Reply(chat, text, "usage")
        ELSE LET hours == PyInt(parts[2])
             IN  IF ~hours.ok THEN Reply(chat, text, "bad_format")
                 ELSE IF ~FrequencyAccepted(hours.val) THEN Reply(chat, text, "bad_value")
                 ELSE /\ Mutate(SetFrequencyRec(schedule, hours.val))
                      /\ ev' = [op |-> "cmd", chat |-> chat, text |-> text, resp |-> "ok"]
                      /\ UNCHANGED groupVars

\* the /toggle_schedule branch
ToggleBranch(chat, text) ==
    /\ Mutate(SetEnabledRec(schedule, ~schedule.enabled))
    /\ ev' = [op |-> "cmd", chat |-> chat, text |-> text, resp |-> "ok"]
    /\ UNCHANGED groupVars

\* the /setgroup branch
SetGroupBranch(chat, text) ==
    LET parts == SplitOnceOf[text]
    IN  IF Len(parts) < 2 THEN Reply(chat, text, "usage")
        ELSE /\ SetActiveStep(Strip(parts[2]), StatementsOfSetActive)
             /\ ev' = [op |-> "cmd", chat |-> chat, text |-> text, resp |-> "ok"]
             /\ UNCHANGED storeVars

\* handle_bot_command(command, chat_id, message_text); it has no await
HandleBotCommand(chat, text) ==
    LET command == CommandNameOf[text]
    IN  /\ IF ~Authorized(chat) THEN Reply(chat, text, Denied)
           ELSE IF command = CmdStart \/ command = CmdHelp THEN Reply(chat, text, "help")
           ELSE IF command = CmdSchedule THEN Reply(chat, text, "schedule")
           ELSE IF command = CmdGenerateNow THEN Reply(chat, text, "")
           ELSE IF StartsWith(command, CmdSetTime) THEN SetTimeBranch(chat, text)
           ELSE IF StartsWith(command, CmdSetLocal) THEN SetLocalBranch(chat, text)
           ELSE IF StartsWith(command, CmdSetFreq) THEN SetFreqBranch(chat, text)
           ELSE IF StartsWith(command, CmdStats) THEN Reply(chat, text, "stats")
           ELSE IF command = CmdToggle THEN ToggleBranch(chat, text)
           ELSE IF command = CmdGroups THEN Reply(chat, text, "groups")
           ELSE IF StartsWith(command, CmdSetGroup) THEN SetGroupBranch(chat, text)
           ELSE IF command = CmdAddGroup THEN Reply(chat, text, "addgroup")
           ELSE IF command = CmdNextPost THEN Reply(chat, text, "nextpost")
           ELSE Reply(chat, text, "unknown")
        /\ UNCHANGED <<commentVars, sysVars>>

\* a command arrives from any chat
Command ==
    \E chat \in ChatIds, text \in CommandTexts : HandleBotCommand(chat, text)

\* the administrator changes the schedule or the active group
AdminCommand ==
    \E text \in MutatingTexts : HandleBotCommand(AdminId, text)

\* ------------------------------------------------------ POST /schedule
\* ScheduleRequest: three optional fields; pydantic checks the types only
IntV(n) == <<"int", n>>
BoolV(b) == <<"bool", b>>
ScheduleRequests ==
    [next_post_time : {NoneV, T2100},
     frequency_hours : {NoneV, IntV(0), IntV(12)},
     enabled : {NoneV, BoolV(TRUE), BoolV(FALSE)}]

\* set_schedule: each field that is not None goes to its mutator, which saves
SetSchedule ==
    \E req \in ScheduleRequests :
    \E s1 \in {IF req.next_post_time # NoneV
                THEN SetNextPostTimeRec(schedule, req.next_post_time, now)
                ELSE schedule} :
    \E st1 \in {IF req.next_post_time # NoneV
                 THEN SaveSchedule(use_db, stored, s1) ELSE stored} :
    \E s2 \in {IF req.frequency_hours # NoneV
                THEN SetFrequencyRec(s1, req.frequency_hours[2]) ELSE s1} :
    \E st2 \in {IF req.frequency_hours # NoneV
                 THEN SaveSchedule(use_db, st1, s2) ELSE st1} :
    \E s3 \in {IF req.enabled # NoneV THEN SetEnabledRec(s2, req.enabled[2]) ELSE s2} :
        /\ schedule' = s3
        /\ stored' = IF req.enabled # NoneV THEN SaveSchedule(use_db, st2, s3) ELSE st2
        /\ ev' = [op |-> "set_schedule", req |-> req]
        /\ UNCHANGED <<now, use_db, groupVars, commentVars, sysVars>>

\* the process restarts: the managers load what was persisted, the loop starts
\* again and the requests that were in flight are gone
Restart ==
    /\ schedule' = LoadSchedule(use_db, stored)
    /\ groups' = IF use_db THEN DbGroupsLoadGroups(group_rows) ELSE groups
    /\ active_group_id' = IF use_db THEN DbGroupsLoadActive(group_rows) ELSE active_group_id
    /\ loopPc' = "sleeping"
    /\ poll' = [p \in PollIds |-> "idle"]
    /\ cancelled' = FALSE
    /\ ev' = [op |-> "restart"]
    /\ UNCHANGED <<now, use_db, stored, group_rows, commentVars, settings, twin, posts, web>>

Next ==
    \/ Advance
    \/ LoopIdle
    \/ LoopTick
    \/ PipeGenerate
    \/ PipePublish
    \/ \E p \in PollIds : PollStart(p)
    \/ \E p \in PollIds : PollFinish(p)
    \/ AdminCommand
    \/ Restart

Spec == Init /\ [][Next]_vars

\* the scheduler loop's task from its creation to its end: the loop, the
\* pipeline it awaits, the administrator's commands, shutdown and restart
NextLoop ==
    \/ Advance
    \/ LoopIdle
    \/ LoopTick
    \/ PipeGenerate
    \/ PipePublish
    \/ AdminCommand
    \/ Shutdown
    \/ LoopCancelled
    \/ Restart

SpecLoop == Init /\ [][NextLoop]_vars

\* the event loop runs a task whose cancellation was requested: lifespan awaits
\* the task right after cancelling it
SpecLoopFair == SpecLoop /\ WF_vars(LoopCancelled)

\* the writers of the schedule: the administrator's commands and POST /schedule
ScheduleTexts == {TxtSetTime0900, TxtSetFreq12, TxtSetFreq0, TxtSetFreqNeg, TxtToggle}

ScheduleCommand ==
    \E text \in ScheduleTexts : HandleBotCommand(AdminId, text)

NextScheduleApi ==
    \/ Advance
    \/ ScheduleCommand
    \/ SetSchedule
    \/ Restart

SpecScheduleApi == Init /\ [][NextScheduleApi]_vars

\* ------------------------------------------------------ /generate_now
\* a /generate_now that would run only while the schedule is enabled
GenerateNowRunsWhenEnabled(from_id) ==
    /\ Truthy(settings.admin_chat_id)
    /\ from_id = settings.admin_chat_id
    /\ schedule.enabled

\* telegram_webhook: if command == "/generate_now" and is_admin, where
\* is_admin = settings.admin_chat_id and from_id == str(settings.admin_chat_id)
GenerateNowRuns(from_id) ==
    /\ Truthy(settings.admin_chat_id)
    /\ from_id = settings.admin_chat_id

\* do_generate_now: the content is generated or not; the administrator gets the
\* photo and the text; with an active group the post goes to the group through
\* send_post_with_image, whose message ids are dropped.  outcome: not_generated |
\* no_group | published
GenerateNow ==
    \E from_id \in ChatIds :
        /\ GenerateNowRuns(from_id)
        /\ \E generated \in BOOLEAN, photo_id \in MessageIds, text_id \in MessageIds :
              ev' = [op |-> "generate_now",
                     outcome |-> IF ~generated THEN "not_generated"
                                 ELSE IF Truthy(GetActiveGroupId) THEN "published"
                                 ELSE "no_group",
                     delivered |-> generated /\ Truthy(GetActiveGroupId)
                                   /\ (Truthy(photo_id) \/ Truthy(text_id))]
        /\ UNCHANGED <<storeVars, groupVars, commentVars, sysVars>>

\* the administrator's commands, POST /schedule and /generate_now
NextGenerateNow ==
    \/ Advance
    \/ AdminCommand
    \/ SetSchedule
    \/ GenerateNow
    \/ Restart

SpecGenerateNow == Init /\ [][NextGenerateNow]_vars

\* ------------------------------------------- /toggle_schedule requests in flight
\* variant of AwaitsInToggle: the handler would yield between the read and the write
AwaitsInToggleAlways == TRUE

\* current = schedule_manager.is_enabled(); schedule_manager.set_enabled(not current):
\* two consecutive statements of a coroutine that has no await, calling methods
\* that are not coroutines
AwaitsInToggle == FALSE

\* telegram_webhook runs handle_bot_command for /toggle_schedule from the
\* administrator's chat, then awaits send_telegram_message with the reply
WebToggle(h) ==
    /\ web.pc[h] = "idle"
    /\ web.toggles < MaxToggles
    /\ IF ~Authorized(AdminId)
       THEN /\ web' = [web EXCEPT !.pc[h] = "replying"]
            /\ ev' = [op |-> "web", handler |-> h, resp |-> Denied]
            /\ UNCHANGED storeVars
       ELSE IF AwaitsInToggle
       THEN /\ web' = [web EXCEPT !.pc[h] = "read",
                                  !.current[h] = BoolV(schedule.enabled)]
            /\ ev' = [op |-> "web", handler |-> h, resp |-> "read"]
            /\ UNCHANGED storeVars
       ELSE /\ Mutate(SetEnabledRec(schedule, ~schedule.enabled))
            /\ web' = [web EXCEPT !.pc[h] = "replying",
                                  !.current[h] = BoolV(schedule.enabled),
                                  !.toggles = @ + 1]
            /\ ev' = [op |-> "web", handler |-> h, resp |-> "ok"]
    /\ UNCHANGED <<groupVars, commentVars, settings, loopPc, poll, cancelled, twin, posts>>

\* the handler goes on from where it was suspended: it writes what it read, or
\* its reply was sent and the request ends
WebResume(h) ==
    /\ web.pc[h] \in {"read", "replying"}
    /\ IF web.pc[h] = "read"
       THEN /\ Mutate(SetEnabledRec(schedule, ~web.current[h][2]))
            /\ web' = [web EXCEPT !.pc[h] = "replying", !.toggles = @ + 1]
            /\ ev' = [op |-> "web", handler |-> h, resp |-> "ok"]
       ELSE /\ web' = [web EXCEPT !.pc[h] = "idle"]
            /\ ev' = [op |-> "web_done", handler |-> h]
            /\ UNCHANGED storeVars
    /\ UNCHANGED <<groupVars, commentVars, settings, loopPc, poll, cancelled, twin, posts>>

\* the administrator sets the time, the frequency or the active group
OtherAdminCommand ==
    \E text \in {TxtSetTime0900, TxtSetFreq12, TxtSetGroup} :
        HandleBotCommand(AdminId, text)

\* toggle requests in flight together, beside the scheduler loop
NextToggles ==
    \/ Advance
    \/ LoopIdle
    \/ LoopTick
    \/ PipeGenerate
    \/ PipePublish
    \/ OtherAdminCommand
    \/ \E h \in Handlers : WebToggle(h)
    \/ \E h \in Handlers : WebResume(h)

SpecToggles == Init /\ [][NextToggles]_vars

\* the administrator sends texts that name no documented command, between
\* documented ones
UnrecognizedCommand ==
    \E text \in UnrecognizedTexts : HandleBotCommand(AdminId, text)

NextUnrecognized ==
    \/ Advance
    \/ UnrecognizedCommand
    \/ ScheduleCommand
    \/ Restart

SpecUnrecognized == Init /\ [][NextUnrecognized]_vars

\* the command router alone: commands from both chats, handled at any time of
\* the two days and across restarts
NextRouter ==
    \/ Advance
    \/ Command
    \/ Restart

SpecRouter == Init /\ [][NextRouter]_vars

\* the administrator's /settime and /setlocal commands, with and without a
\* configured local zone
TimeSettingsValues ==
    [zapier_mode : {FALSE}, admin_chat_id : {AdminId},
     telegram_token : {<<"t", "o", "k", "e", "n">>}, telegram_group_id : {NoneV},
     local_timezone : {NoneV, LocalZone}]

InitTimeCommands ==
    /\ InitSchedule
    /\ InitGroups
    /\ InitNoComments
    /\ settings \in TimeSettingsValues
    /\ InitAtRest
    /\ ev = [op |-> "init"]

TimeCommand ==
    \E text \in TimeTexts : HandleBotCommand(AdminId, text)

NextTimeCommands ==
    \/ Advance
    \/ TimeCommand
    \/ Restart

SpecTimeCommands == InitTimeCommands /\ [][NextTimeCommands]_vars

\* ------------------------------------------- properties of the publish cycle
\* the last step ended a publish cycle that failed: the pipeline raised, the
\* settings validation failed, no message id came back for the photo and for the
\* text, or (relay) content generation returned nothing
FailedCycle ==
    \/ ev.op = "cycle_end" /\ (ev.status = "error" \/ ~ev.delivered)
    \/ ev.op = "tick" /\ ev.outcome = "invalid"
    \/ ev.op = "poll_end" /\ ~ev.should_post

\* the last step ended a publish cycle that completed: a message was delivered
\* (direct), or should-post produced content (relay)
SuccessfulCycle ==
    \/ ev.op = "cycle_end" /\ ev.status = "success" /\ ev.delivered
    \/ ev.op = "poll_end" /\ ev.should_post

\* C3: a publish cycle that fails never calls set_next_run_after_publish():
\* next_run_at is left unchanged by that cycle.
C3_FailedCycleKeepsNextRun ==
    [][FailedCycle' =>
          /\ ev'.op # "tick" => ev'.rolls = 0
          /\ schedule'.next_run_at = schedule.next_run_at]_vars

\* C4: every publish cycle that completes successfully calls
\* set_next_run_after_publish() exactly once, whatever administrator commands
\* (including /toggle_schedule) were handled while it was in flight, so next_run_at
\* after the cycle is the completion time plus frequency_hours.
C4_SuccessfulCycleRollsOnce ==
    [][SuccessfulCycle' =>
          /\ ev'.rolls = 1
          /\ schedule'.next_run_at =
                 IsoFormat(Dt(now + schedule.frequency_hours * TicksPerHour, FALSE))]_vars

\* the last step was an iteration of the direct-mode scheduler loop
LoopTicked == ev.op = "tick" /\ ev.outcome # "relay"

\* C5: a direct-mode loop tick executed while enabled is false makes no generation
\* or publish call and leaves every field of the schedule unchanged; it does not
\* run the memoizing get_next_run_at().
C5_DisabledTickTouchesNothing ==
    [][(LoopTicked' /\ ~schedule.enabled) =>
          /\ ev'.outcome = "disabled"
          /\ loopPc' = "sleeping"
          /\ schedule' = schedule
          /\ stored' = stored]_vars

\* C5 witness: the loop ticked on a disabled schedule whose next_run_at is null
\* while next_post_time holds a time get_next_run_at() would have derived it from
C5_Witness ==
    /\ LoopTicked
    /\ ev.outcome = "disabled"
    /\ ~schedule.enabled
    /\ schedule.next_run_at = NoneV
    /\ Candidate(schedule.next_post_time, now).ok
    /\ loopPc = "sleeping"

\* the schedule is enabled, get_next_run_at() is non-null and its instant has come
DueAt(s, t) ==
    /\ s.enabled
    /\ GetNextRunAtVal(s, t) # NoneV
    /\ t >= Instant(GetNextRunAtVal(s, t))

\* C6: in direct mode the loop starts the generate-and-publish pipeline on a tick
\* if and only if the schedule is enabled, get_next_run_at() is non-null and
\* now >= next_run_at; it never publishes before next_run_at, and never with a
\* fresh schedule (next_post_time and next_run_at both null).
C6_StartsIffEnabledAndDue ==
    [][LoopTicked' =>
          (ev'.outcome \in {"started", "invalid"} <=> DueAt(schedule, now))]_vars

\* ------------------------------------------- properties of the command router
\* the last step handled a command
Commanded == ev.op = "cmd"

\* C9: a command from a chat other than the configured administrator's gets the
\* denial and changes nothing in the schedule, the groups and the comments; also
\* when no administrator is configured.
C9_NonAdminDenied ==
    [][(Commanded' /\ ev'.chat # settings.admin_chat_id) =>
          /\ ev'.resp = Denied
          /\ UNCHANGED <<schedule, stored, groups, active_group_id, group_rows,
                         comments>>]_vars

\* C9 witness: another chat sent /toggle_schedule to a bot that has an administrator,
\* after the administrator had set the frequency to 12
C9_Witness ==
    /\ Commanded
    /\ settings.admin_chat_id = AdminId
    /\ ev.chat = OtherId
    /\ ev.text = TxtToggle
    /\ ev.resp = Denied
    /\ schedule.enabled
    /\ schedule.frequency_hours = 12

\* the error responses of /setfreq
SetFreqErrors == {"usage", "bad_format", "bad_value"}

\* C10: an administrator's /setfreq with an integer argument N >= 1 sets
\* frequency_hours to N; with a missing, non-numeric or < 1 argument it returns an
\* error and leaves the whole schedule unchanged.
C10_SetFreqValidates ==
    [][(Commanded' /\ ev'.chat = settings.admin_chat_id) =>
          /\ ev'.text = TxtSetFreq12 =>
                /\ schedule' = [schedule EXCEPT !.frequency_hours = 12]
                /\ ev'.resp = "ok"
          /\ ev'.text \in {TxtSetFreq0, TxtSetFreqNeg, TxtSetFreqAbc, TxtSetFreqNone} =>
                /\ schedule' = schedule
                /\ ev'.resp \in SetFreqErrors]_vars

\* C10 witness: the administrator sent /setfreq 0 when the frequency was 12
C10_Witness ==
    /\ Commanded
    /\ ev.chat = settings.admin_chat_id
    /\ ev.text = TxtSetFreq0
    /\ ev.resp = "bad_value"
    /\ schedule.frequency_hours = 12

\* the error responses of /settime and /setlocal
TimeErrors == {"usage", "bad_format", "bad_value", "no_timezone", "not_converted"}

\* nothing changed in the schedule, its persisted copy, the groups and the comments
StoresUnchanged ==
    UNCHANGED <<schedule, stored, groups, active_group_id, group_rows, comments>>

\* C11: an administrator's /settime or /setlocal with malformed input (missing
\* argument, not two colon-separated integers, hour or minute out of range, for
\* /setlocal no configured zone or a failed conversion) returns an error and
\* leaves every field of every store unchanged: nothing is partially applied.
C11_MalformedTimeChangesNothing ==
    [][(Commanded' /\ ev'.chat = settings.admin_chat_id /\ ev'.text \in TimeTexts) =>
          /\ ev'.text \in MalformedTimeTexts => ev'.resp \in TimeErrors
          /\ (CommandNameOf[ev'.text] = CmdSetLocal /\ settings.local_timezone = NoneV)
                 => ev'.resp \in TimeErrors
          /\ ev'.resp \in TimeErrors => StoresUnchanged]_vars

\* C11 witness: /settime 09:60 was refused after /setlocal 10:00 had set the time
\* to 07:00 server time
C11_Witness ==
    /\ Commanded
    /\ ev.text = TxtSetTime0960
    /\ ev.resp = "bad_value"
    /\ schedule.next_post_time = HHMM(7, 0)
    /\ schedule.next_run_at # NoneV

\* the loop's task has ended
LoopStopped == loopPc = "stopped"

\* C12: in direct mode a failure during a tick never ends the loop: after the due
\* check raised, or after the pipeline ended in error, the loop sleeps again and
\* its next check can run; only a delivered cancellation ends the loop.
C12_FailureNeverStopsLoop ==
    [][/\ (LoopTicked' /\ ev'.outcome = "error") => (loopPc' = "sleeping" /\ ~cancelled')
       /\ FailedCycle' => (loopPc' = "sleeping" /\ ~cancelled')
       /\ (LoopStopped' /\ ~LoopStopped) => (cancelled /\ ev'.op = "cancelled")]_vars

\* C12 witness: the due check raised and the loop is asleep, ready for the next
C12_Witness ==
    /\ LoopTicked
    /\ ev.outcome = "error"
    /\ ~settings.zapier_mode
    /\ loopPc = "sleeping"
    /\ ENABLED LoopTick

\* the last step delivered the cancellation to the loop's task
CancelDelivered == ev.op = "cancelled"

\* the steps of the loop's task other than the delivery of a cancellation
LoopSteps == {"tick", "generated", "cycle_end"}

\* C13: a pipeline in flight when the loop is cancelled is not cut short: the
\* cancellation takes effect only once the loop is back at its sleep, after the
\* pipeline it started has completed.
C13_InFlightPipelineCompletes ==
    [][CancelDelivered' => ev'.at = "sleeping"]_vars

\* C14: once cancellation is requested the loop's task takes no further step of
\* its own (no check, no pipeline start or step), the delivery ends the task in
\* direct and in relay mode, and the task does end (unless the process is
\* restarted first).
C14_CancelStopsLoop ==
    /\ [][/\ cancelled => ev'.op \notin LoopSteps
          /\ CancelDelivered' => (LoopStopped' /\ cancelled /\ ~cancelled')]_vars
    /\ cancelled ~> (LoopStopped \/ ev.op = "restart")

\* C14 witness: the relay-mode loop was cancelled in its sleep and has ended
C14_Witness ==
    /\ CancelDelivered
    /\ LoopStopped
    /\ settings.zapier_mode
    /\ ~ENABLED LoopIdle

\* the operations that may change next_run_at in relay mode: the should-post
\* request, the administrator's commands, and the reload at a restart
RelayWriters == {"poll", "poll_end", "cmd", "restart"}

PollChecked == ev.op = "poll" /\ ev.outcome # "not_relay"

\* C16: a relay should-post request made while the schedule is disabled, has no
\* next run or is not yet due answers should_post=false, starts no generation and
\* leaves a known next_run_at where it is; a generation starts only when enabled
\* and due, and an answer should_post=true comes with next_run_at rolled to
\* now + frequency_hours.
C16_ShouldPostFollowsSchedule ==
    [][/\ (PollChecked' /\ ~DueAt(schedule, now)) =>
             /\ ev'.outcome \in {"disabled", "not_due"}
             /\ poll' = poll
             /\ schedule.next_run_at # NoneV => UNCHANGED <<schedule, stored>>
       /\ (PollChecked' /\ ev'.outcome = "generating") => DueAt(schedule, now)
       /\ (ev'.op = "poll_end" /\ ev'.should_post) =>
             /\ poll[ev'.id] = "generating"
             /\ schedule'.next_run_at =
                    IsoFormat(Dt(now + schedule.frequency_hours * TicksPerHour, FALSE))]_vars

\* another should-post request is generating content
OtherGenerating(p) == \E q \in PollIds \ {p} : poll[q] = "generating"

\* C17: nothing serialises overlapping should-post requests: a request that finds
\* the schedule due starts generating also while another request is generating,
\* and every request whose generation produced a post returns should_post=true
\* and rolls next_run_at, also when another request has already been answered
\* for that due time.
C17_OverlappingPollsBothGenerate ==
    [][/\ (PollChecked' /\ DueAt(schedule, now) /\ ev'.outcome # "error") =>
             /\ ev'.outcome = "generating"
             /\ poll' = [poll EXCEPT ![ev'.id] = "generating"]
       /\ (ev'.op = "poll_end" /\ ev'.post # NoneV) =>
             /\ ev'.should_post
             /\ ev'.rolls = 1
             /\ poll' = [poll EXCEPT ![ev'.id] = "idle"]]_vars

\* C17 witness: a request has just been answered should_post=true, so the
\* schedule is no longer due, while another request that started in the same due
\* window is still generating
C17_Witness ==
    /\ ev.op = "poll_end"
    /\ ev.should_post
    /\ OtherGenerating(ev.id)
    /\ schedule.enabled
    /\ ~DueAt(schedule, now)

\* ----------------------------------------------- properties of the backends
\* C18: a file-backed and a relational-backed instance that received the same
\* store operations answer every read alike: get_all, get_active,
\* get_latest_comment_any and get_latest_comment_for_chat for each chat.
C18_BackendsAgree ==
    /\ groups = DbGroupsLoadGroups(twin.rows)
    /\ GetActive(groups, active_group_id) =
           GetActive(DbGroupsLoadGroups(twin.rows), DbGroupsLoadActive(twin.rows))
    /\ LatestCommentAny(comments) = LatestCommentAny(twin.comments)
    /\ \A chat \in ParityChats :
           LatestCommentFor(comments, chat) = LatestCommentFor(twin.comments, chat)

\* the group ids of a list, in order
IdsOf(gs) == [i \in 1..Len(gs) |-> gs[i].group_id]

\* the last step was add_group(ev.gid, ev.title)
GroupAdded == ev.op = "add_group"

\* C19: add_group(id, title) is an upsert by id under both backends: an unknown id
\* gets one new record at the end; a known id gets no second record, and its
\* title is replaced only when the supplied title is non-empty; the other
\* records stay as they are.
C19_AddGroupUpserts ==
    [][GroupAdded' =>
          LET i == IndexOf(groups, ev'.gid)
          IN  IF i = 0
              THEN /\ Len(groups') = Len(groups) + 1
                   /\ SubSeq(groups', 1, Len(groups)) = groups
                   /\ groups'[Len(groups')].group_id = ev'.gid
              ELSE /\ IdsOf(groups') = IdsOf(groups)
                   /\ \A j \in 1..Len(groups) : j # i => groups'[j] = groups[j]
                   /\ groups'[i].title =
                          IF ev'.title # <<>> THEN ev'.title ELSE groups[i].title]_vars

\* the last step was set_active(ev.gid)
ActiveSet == ev.op = "set_active"

\* C20: after set_active(id) returns, get_active() returns id and no other group
\* is marked active; an unknown id has a record afterwards, and for a known id
\* the records and their titles are as before.
C20_SetActiveActivates ==
    [][ActiveSet' =>
          /\ GetActive(groups', active_group_id') = ev'.gid
          /\ \A i \in 1..Len(group_rows') :
                 group_rows'[i].is_active => group_rows'[i].group_id = ev'.gid
          /\ IF IndexOf(groups, ev'.gid) = 0
             THEN IndexOf(groups', ev'.gid) > 0
             ELSE groups' = groups]_vars

\* ------------------------------------------ properties of the destination
\* the group explicitly marked active: the stored active id (file backend), the
\* first row whose is_active flag is set (relational backend); null if none
ExplicitlyActive ==
    IF use_db
    THEN IF \E i \in 1..Len(group_rows) : group_rows[i].is_active
         THEN group_rows[CHOOSE i \in 1..Len(group_rows) :
                 /\ group_rows[i].is_active
                 /\ \A j \in 1..(i - 1) : ~group_rows[j].is_active].group_id
         ELSE NoneV
    ELSE active_group_id

\* C21: the destination is the explicitly active group if there is one, else the
\* first-inserted group of a non-empty registry, else the configured default, and
\* null only with an empty registry and no default; the first-inserted group
\* stays first whatever is added or activated later.
C21_DestinationOrder ==
    /\ [](GetActiveGroupId =
             IF ExplicitlyActive # NoneV THEN ExplicitlyActive
             ELSE IF groups # <<>> THEN groups[1].group_id
             ELSE settings.telegram_group_id)
    /\ [](GetActiveGroupId = NoneV <=>
             (groups = <<>> /\ settings.telegram_group_id = NoneV))
    /\ [][groups # <<>> =>
             (groups' # <<>> /\ groups'[1].group_id = groups[1].group_id)]_vars

\* C21 witness: two groups are registered, none was ever made active, a default
\* is configured, and the destination is the first-inserted group
C21_Witness ==
    /\ Len(groups) = 2
    /\ ExplicitlyActive = NoneV
    /\ settings.telegram_group_id # NoneV
    /\ GetActiveGroupId = groups[1].group_id
    /\ GetActiveGroupId # settings.telegram_group_id

\* no two records of the list carry the same group_id
UniqueIds(gs) == \A i, j \in 1..Len(gs) : gs[i].group_id = gs[j].group_id => i = j

\* every record of gs is still in hs, at its place
KeepsRecords(gs, hs) ==
    /\ Len(hs) >= Len(gs)
    /\ \A i \in 1..Len(gs) : hs[i].group_id = gs[i].group_id

\* C22: from an empty registry, under any add_group and set_active calls, no
\* two records have the same group_id (in the list and in the table), and no
\* record is ever removed.
C22_UniqueAndNeverRemoved ==
    /\ [](UniqueIds(groups) /\ UniqueIds(group_rows))
    /\ [][KeepsRecords(groups, groups') /\ KeepsRecords(group_rows, group_rows')]_vars

\* C22 witness: with three groups registered the first one was added again, and
\* the registry still holds three records
C22_Witness ==
    /\ GroupAdded
    /\ Len(groups) = 3
    /\ ev.gid = groups[1].group_id

\* ---------------------------------------- properties of the schedule's writers
\* C23: frequency_hours is an integer >= 1 in every reachable state, under the
\* administrator's commands and the schedule-set request.
C23_FrequencyPositive == schedule.frequency_hours \in Nat \ {0}

\* ------------------------------------------------- properties of the statistics
\* the message ids of a collection, in order
PostIdsOf(ps) == [i \in 1..Len(ps) |-> ps[i].post_id]

\* C24: the collection holds at most 100 records, the most recently inserted
\* ones in insertion order: add_post puts the new record last and, on a full
\* collection, evicts the oldest one; update_post_stats changes neither the
\* number of records nor which posts they are.
C24_StatsHoldLastHundred ==
    /\ [](Len(posts) <= StatsCap)
    /\ [][ev'.op = "add_post" =>
             /\ PostIdsOf(posts') = LastN(Append(PostIdsOf(posts), ev'.id), StatsCap)
             /\ Len(posts) = StatsCap => PostIdsOf(posts')[1] = PostIdsOf(posts)[2]]_vars
    /\ [][ev'.op = "update_post_stats" => PostIdsOf(posts') = PostIdsOf(posts)]_vars

\* C24 witness: the 102nd post was added: the collection is full and its oldest
\* record is the third post
C24_Witness ==
    /\ ev.op = "add_post"
    /\ ev.id = PostId(StatsCap + 2)
    /\ Len(posts) = StatsCap
    /\ posts[1].post_id = PostId(3)
    /\ posts[StatsCap].post_id = ev.id

\* --------------------------------------------------- properties of the toggle
\* the step is a /toggle_schedule that the handler accepted as the administrator's
ToggleStep ==
    /\ ev'.op = "cmd" /\ ev'.chat = AdminId /\ ev'.text = TxtToggle
    /\ ev'.resp # Denied

\* C25: /toggle_schedule from the administrator flips enabled and leaves
\* next_post_time, frequency_hours and next_run_at as they were; toggling the
\* result once more gives the record the first toggle started from.
C25_ToggleFlipsEnabledOnly ==
    [][ToggleStep =>
          /\ schedule'.enabled = ~schedule.enabled
          /\ schedule'.next_post_time = schedule.next_post_time
          /\ schedule'.frequency_hours = schedule.frequency_hours
          /\ schedule'.next_run_at = schedule.next_run_at
          /\ DOMAIN schedule' = DOMAIN schedule
          /\ SetEnabledRec(schedule', ~schedule'.enabled) = schedule]_vars

\* C25 witness: a toggle has switched off a schedule whose other fields are set
C25_Witness ==
    /\ ev.op = "cmd" /\ ev.chat = AdminId /\ ev.text = TxtToggle
    /\ ev.resp # Denied
    /\ ~schedule.enabled
    /\ schedule.next_post_time = T0900
    /\ schedule.frequency_hours = 12
    /\ schedule.next_run_at # NoneV

\* ------------------------------------------------ properties of /generate_now
\* C26: /generate_now from the administrator leaves next_post_time,
\* frequency_hours, enabled and next_run_at (in memory and stored) as they were,
\* whatever its outcome, and it can run in every state in which an administrator
\* is configured, whether or not the schedule is enabled or due.
C26_GenerateNowBypassesSchedule ==
    /\ [][ev'.op = "generate_now" => schedule' = schedule /\ stored' = stored]_vars
    /\ [](Truthy(settings.admin_chat_id) => ENABLED GenerateNow)

\* C26 witness: a post went to the group while the schedule was switched off
\* and its next run lay ahead
C26_Witness ==
    /\ ev.op = "generate_now"
    /\ ev.outcome = "published"
    /\ ev.delivered
    /\ ~schedule.enabled
    /\ Truthy(schedule.next_run_at)
    /\ ~DueAt(schedule, now)

\* ------------------------------------------- properties of the latest comment
\* C27: after add_comment(c, .., text) the latest comment of any chat and the
\* latest comment of chat c are that text, an empty cache has no latest comment,
\* and below the cap the call makes the cache one record longer.
C27_LatestIsLastAppended ==
    /\ [](comments = <<>> =>
             /\ LatestCommentAny(comments) = NoneV
             /\ \A c \in {ChatA, ChatB} : LatestCommentFor(comments, c) = NoneV)
    /\ [][ev'.op = "add_comment" =>
             /\ LatestCommentAny(comments') = Text(added')
             /\ LatestCommentFor(comments', ev'.chat) = Text(added')
             /\ Len(comments) < CommentsCap => Len(comments') = Len(comments) + 1]_vars

\* ------------------------------------------- properties of concurrent handlers
\* C28: the read and the write of /toggle_schedule are one step, so however
\* toggle requests, other commands and the scheduler loop interleave, after N
\* toggles enabled has flipped exactly N times from its initial value (on), and
\* each toggle flips the value the step before it left.
C28_NoLostToggle ==
    /\ [](schedule.enabled = (web.toggles % 2 = 0))
    /\ [][web'.toggles = web.toggles + 1 => schedule'.enabled = ~schedule.enabled]_vars

\* C28 witness: three toggles were carried out, two requests and the pipeline
\* are in flight together
C28_Witness ==
    /\ web.toggles = MaxToggles
    /\ \A h \in Handlers : web.pc[h] = "replying"
    /\ loopPc = "publishing"
    /\ ~schedule.enabled

\* ------------------------------------------- properties of get_next_run_at
\* next_post_time reads as an hour in 0..23 and a minute in 0..59
ReadsAsHourMinute(s) ==
    /\ Truthy(s.next_post_time)
    /\ ParseHourMinute(s.next_post_time).ok
    /\ TimeInRange(ParseHourMinute(s.next_post_time).val[1],
                   ParseHourMinute(s.next_post_time).val[2])

\* the instant get_next_run_at derives from next_post_time at the instant t
DerivedInstant(s, t) ==
    NextOccurrence(t, ParseHourMinute(s.next_post_time).val[1],
                   ParseHourMinute(s.next_post_time).val[2])

\* the instants of later calls
LaterInstants == {now, now + 1, now + TicksPerDay, MaxNow + TicksPerDay}

\* C29: get_next_run_at() returns a cached next_run_at and changes nothing, in
\* the past or not; with none cached and a next_post_time that reads as a valid
\* hour and minute it returns the next occurrence after the call, stores and
\* persists it, and later calls return that instant and change nothing; with
\* neither set it returns None and changes nothing.
C29_GetNextRunAtMemoizes ==
    [][ev'.op = "get_next_run_at" =>
          /\ Truthy(schedule.next_run_at) =>
                /\ ev'.ret = FromIsoFormat(schedule.next_run_at).val
                /\ schedule' = schedule /\ stored' = stored
          /\ (~Truthy(schedule.next_run_at) /\ ReadsAsHourMinute(schedule)) =>
                /\ Instant(ev'.ret) = DerivedInstant(schedule, now)
                /\ Instant(ev'.ret) > now
                /\ schedule' = [schedule EXCEPT !.next_run_at = IsoFormat(ev'.ret)]
                /\ stored' = SaveSchedule(use_db, stored, schedule')
                /\ Instant(FromIsoFormat(LoadSchedule(use_db, stored').next_run_at).val)
                      = Instant(ev'.ret)
                /\ \A t \in LaterInstants :
                      /\ GetNextRunAtVal(schedule', t) = ev'.ret
                      /\ GetNextRunAtRec(schedule', t) = schedule'
          /\ (~Truthy(schedule.next_run_at) /\ ~Truthy(schedule.next_post_time)) =>
                /\ ev'.ret = NoneV
                /\ schedule' = schedule /\ stored' = stored]_vars

\* C29 witness: a call derived 21:00 from "21:00:00" and the value is kept
C29_Witness ==
    /\ ev.op = "get_next_run_at"
    /\ ev.derived
    /\ schedule.next_post_time = T2100Seconds
    /\ schedule.next_run_at = IsoFormat(ev.ret)
    /\ Instant(ev.ret) > now

\* --------------------------------------- properties of persist-and-reload
\* the due check of the loop and of the relay poll on a record: now >= next_run_at,
\* false without a next run, or the TypeError the comparison raises
DueCheck(s, t) ==
    IF GetNextRunAtVal(s, t) = NoneV THEN Ok(FALSE)
    ELSE DtGE(Dt(t, FALSE), GetNextRunAtVal(s, t))

\* the step is a mutator of the ScheduleManager
MutatorStep ==
    \/ ev'.op \in {"set_next_post_time", "set_frequency", "set_enabled",
                   "set_next_run_after_publish"}
    \/ ev'.op = "get_next_run_at" /\ ev'.derived

\* the save of the step was carried out: the relational UPDATE was not rejected
SavedWithoutError ==
    ~(use_db /\ schedule'.next_post_time # NoneV
             /\ Len(schedule'.next_post_time) > PostTimeColumnWidth)

\* C30: after a mutator whose save was carried out, a ScheduleManager constructed
\* over the same backend loads a record equal in its four fields to the
\* in-memory one, and its due check gives the same answer.
C30_ReloadEqualsMemory ==
    [][(MutatorStep /\ SavedWithoutError) =>
          /\ LoadSchedule(use_db, stored') = schedule'
          /\ DueCheck(LoadSchedule(use_db, stored'), now) = DueCheck(schedule', now)]_vars

\* --------------------------------- properties of a failing set_active
\* the group ids whose is_active flag is set
ActiveFlags(rows) == {rows[i].group_id : i \in {j \in 1..Len(rows) : rows[j].is_active}}

\* db_groups_set_active raised: a statement that had to run did not
SetActiveFailed ==
    /\ ev'.op = "set_active"
    /\ use_db
    /\ \/ ev'.done < StatementsOfSetActive - 1
       \/ ev'.done = StatementsOfSetActive - 1 /\ IndexOf(group_rows, ev'.gid) = 0

\* C31: a set_active that fails part-way on the relational backend leaves the
\* set of active flags as it was before the call; in particular a group marked
\* active before is still marked active.
C31_FailedSetActiveKeepsFlags ==
    [][SetActiveFailed =>
          /\ ActiveFlags(group_rows') = ActiveFlags(group_rows)
          /\ ActiveFlags(group_rows) # {} => ActiveFlags(group_rows') # {}]_vars

\* --------------------------------------- properties of unrecognized commands
\* the documented command tokens
RecognizedCommands ==
    {CmdStart, CmdHelp, CmdSchedule, CmdGenerateNow, CmdSetTime, CmdSetLocal, CmdSetFreq,
     CmdStats, CmdToggle, CmdGroups, CmdSetGroup, CmdAddGroup, CmdNextPost}

\* C32: a command of the administrator whose token is none of the documented
\* ones is answered with the unknown-command reply and changes neither the
\* schedule, nor its persisted copy, nor the groups, nor the comments.
C32_UnrecognizedChangesNothing ==
    [][(/\ ev'.op = "cmd"
        /\ ev'.chat = AdminId
        /\ ev'.resp # Denied
        /\ CommandNameOf[ev'.text] \notin RecognizedCommands) =>
          /\ ev'.resp = "unknown"
          /\ UNCHANGED <<schedule, stored, groupVars, commentVars>>]_vars

\* ------------------------------------------- properties of an accepted /settime
\* the step is a /settime of the administrator that was answered with success
SetTimeAccepted ==
    /\ ev'.op = "cmd"
    /\ ev'.chat = AdminId
    /\ CommandNameOf[ev'.text] = CmdSetTime
    /\ ev'.resp = "ok"

\* C33: after every /settime answered with success, the next run (next_run_at
\* as get_next_run_at() returns it) is the next occurrence, strictly after the
\* command, of the hour and minute the command's validation read from its
\* argument, whatever next_run_at was before.
C33_AcceptedSetTimeReschedules ==
    [][SetTimeAccepted =>
          \E hm \in {ParseTwoInts(PartsOf[ev'.text][2]).val} :
              /\ GetNextRunAtVal(schedule', now) # NoneV
              /\ Instant(GetNextRunAtVal(schedule', now)) = NextOccurrence(now, hm[1], hm[2])
              /\ Instant(GetNextRunAtVal(schedule', now)) > now]_vars

\* --------------------------------- properties of a /settime during a cycle
\* the last step was an accepted /settime of the administrator, taken while the
\* loop's pipeline was in flight
SetTimeInFlight ==
    /\ loopPc \in {"generating", "publishing"}
    /\ ev.op = "cmd"
    /\ ev.chat = AdminId
    /\ CommandNameOf[ev.text] = CmdSetTime
    /\ ev.resp = "ok"

\* C34: when the cycle in flight completes right after an accepted /settime,
\* next_run_at is still what the /settime left.
C34_SetTimeSurvivesCycle ==
    [][(SetTimeInFlight /\ ev'.op = "cycle_end") =>
          schedule'.next_run_at = schedule.next_run_at]_vars

\* ------------------------------------- properties of one publish per due time
\* the instant of a cached next_run_at
NextRunInstant(s) == Instant(FromIsoFormat(s.next_run_at).val)

\* the step ends a direct-mode cycle with success
CycleSucceeds == ~settings.zapier_mode /\ ev'.op = "cycle_end" /\ ev'.status = "success"

\* the step is the loop's tick that starts the pipeline
CycleStarts == ev'.op = "tick" /\ ev'.outcome = "started"

\* the step is neither an administrator's command nor the end of a cycle
QuietStep == ~settings.zapier_mode /\ ev'.op \notin {"cmd", "cycle_end"}

StillDue(s, t) == s.enabled /\ Truthy(s.next_run_at) /\ NextRunInstant(s) <= t

\* the step ends a scheduled cycle with a failure: the pipeline raised, or the
\* settings validation failed at its entry
ScheduledCycleFails ==
    \/ ev'.op = "cycle_end" /\ ev'.status = "error"
    \/ ev'.op = "tick" /\ ev'.outcome = "invalid"

\* direct mode, and the step is neither an administrator's command nor a
\* cycle's successful end
NoCommandNoSuccess ==
    /\ ~settings.zapier_mode
    /\ ev'.op # "cmd"
    /\ ~(ev'.op = "cycle_end" /\ ev'.status = "success")

\* the step is an iteration of the direct-mode loop
TickStep == ev'.op = "tick" /\ ev'.outcome # "relay"

\* C36: a scheduled cycle that fails (exception or failed settings validation)
\* leaves next_run_at unchanged; a due time of an enabled schedule stays due over
\* every step that is neither a command nor a successful cycle; and every tick
\* of the loop that finds the schedule enabled and due enters the pipeline again
\* (it starts, or fails at the validation), with no back-off and no skipped tick.
C36_FailedCycleRetriedEveryTick ==
    /\ [][ScheduledCycleFails =>
             /\ schedule'.next_run_at = schedule.next_run_at
             /\ loopPc' = "sleeping"]_vars
    /\ [][(NoCommandNoSuccess /\ StillDue(schedule, now)) => StillDue(schedule', now')]_vars
    /\ [][(TickStep /\ StillDue(schedule, now)) => ev'.outcome \in {"started", "invalid"}]_vars

\* ------------------------------------------ frame conditions of the mutators
\* the value is a short "HH:MM" string for set_next_post_time
ShortTime(v) == Truthy(v) /\ Contains(v, ":") /\ Len(v) <= 5

RecordsOf(gs, gid) == {i \in 1..Len(gs) : gs[i].group_id = gid}

\* C38: from an empty registry, under any add_group and set_active calls, an
\* explicitly active group id (the manager's _active_group_id, and the flagged
\* row of the table) is the group_id of exactly one record, and with a
\* non-empty registry get_active() returns the group_id of exactly one record.
C38_ActiveIdIsRegistered ==
    /\ Truthy(active_group_id) => Cardinality(RecordsOf(groups, active_group_id)) = 1
    /\ ExplicitlyActive # NoneV =>
           /\ Cardinality(RecordsOf(groups, ExplicitlyActive)) = 1
           /\ use_db => Cardinality(RecordsOf(group_rows, ExplicitlyActive)) = 1
    /\ groups # <<>> =>
           Cardinality(RecordsOf(groups, GetActive(groups, active_group_id))) = 1

\* C38 witness: set_active on the file backend has just made the third
\* registered group the active one, so the destination is not the first record
C38_Witness ==
    /\ ActiveSet
    /\ ~use_db
    /\ Len(groups) = 3
    /\ active_group_id = ev.gid
    /\ groups[3].group_id = ev.gid
    /\ GetActive(groups, active_group_id) = groups[3].group_id

====
